---------------------------- MODULE Spec2Model ----------------------------
(***************************************************************************)
(* A model of GitBrowse's repository-file resolution and retrieval layer:  *)
(*   - DownloadService   (src/gitbrowse/services/downloader.py)            *)
(*   - RepositoryService (src/gitbrowse/services/repo.py)                  *)
(*   - GitHubAPI         (src/gitbrowse/api/github.py, api/utils.py)       *)
(*   - cache_response    (src/gitbrowse/api/utils.py)                      *)
(* Each subsystem has its own specification over its own variables; the    *)
(* variables of the other subsystems stay at their initial values.         *)
(***************************************************************************)
EXTENDS Integers, Sequences, FiniteSets, TLC

VARIABLES
    \* ---- DownloadService ----
    active_downloads,  \* self.active_downloads: task id -> DownloadTask (ids are 1..n)
    queue,             \* self.queue: FIFO of task ids (the task objects enqueued)
    stop_event,        \* self._stop_event
    wpc,               \* position of each worker thread in _download_worker
    wtask,             \* the task a worker has taken from the queue (0: none)
    c_pc,              \* position of the caller: enqueueing, then wait_for_downloads
    task_ids,          \* wait_for_downloads: local variable task_ids (reassigned)
    listed,            \* wait_for_downloads: the task_ids argument as passed
    timeout,           \* wait_for_downloads: timeout argument, <<>> is None
    elapsed,           \* wait_for_downloads: time.time() - start_time, in sleeps
    result,            \* wait_for_downloads: returned value once c_pc = "done"
    \* ---- NetworkService, RepositoryService ----
    connected,         \* NetworkService._connected
    ls,                \* the call of GitHubAPI.get_repository_files: what the
                       \* API and the page answered, and what it returned
    rs,                \* the last RepositoryService call: method, arguments,
                       \* is_connected() at its start, the collaborator calls
                       \* it made in order, and what it returned
    \* ---- GitHubAPI ----
    fc,                \* the call of GitHubAPI.get_file_content: its branch,
                       \* the requests it sent in order, what it returned
    wk,                \* the call of get_directory_contents_recursive: the
                       \* repository tree, the failing paths, what it returned
    now,               \* time.time(), in units of a quarter of the TTL
    cache_dir,         \* the cache directory: cache key -> file
    cc,                \* the last call of a cached method
    ck,                \* two calls of cached methods and the keys they got
    rl,                \* the last call of a function wrapped by
                       \* handle_rate_limit: the outcome of each attempt,
                       \* the attempts made, the sleeps, what it returned
    bk,                \* the last call of DownloadService.download_files
    br,                \* the last resolution of a default branch: the
                       \* method called, what the API and the page answer,
                       \* the requests made, what was returned
    sr,                \* the last row of a scraped listing turned into a record
    cf,                \* one cache file used by two writing calls and a reading call
    dk,                \* download_file with the ids the code computes: clock, task map, ids returned
    bw,                \* a browsing sequence of main.py: the listing shown, the calls made
    wl,                \* a recursive walk over resolver listings: frames, paths listed, calls
    nw                 \* NetworkService under concurrent check_connection calls

dlVars == <<active_downloads, queue, stop_event, wpc, wtask,
            c_pc, task_ids, listed, timeout, elapsed, result>>
rsVars == <<connected, rs>>
\* what the DownloadService actions leave alone
apiVars == <<fc, wk>>
cacheVars == <<now, cache_dir, cc>>
wrapVars == <<ck, rl, bk, br, sr, cf, dk, bw, wl, nw>>
nonCk == <<rl, bk, br, sr, cf, dk, bw, wl, nw>>
nonRl == <<ck, bk, br, sr, cf, dk, bw, wl, nw>>
nonBk == <<ck, rl, br, sr, cf, dk, bw, wl, nw>>
nonBr == <<ck, rl, bk, sr, cf, dk, bw, wl, nw>>
nonSr == <<ck, rl, bk, br, cf, dk, bw, wl, nw>>
nonCf == <<ck, rl, bk, br, sr, dk, bw, wl, nw>>
nonDk == <<ck, rl, bk, br, sr, cf, bw, wl, nw>>
nonBw == <<ck, rl, bk, br, sr, cf, dk, wl, nw>>
nonWl == <<ck, rl, bk, br, sr, cf, dk, bw, nw>>
nonNw == <<ck, rl, bk, br, sr, cf, dk, bw, wl>>
nonDl == <<rsVars, ls, apiVars, cacheVars, wrapVars>>
\* what the RepositoryService actions leave alone
nonRs == <<dlVars, ls, apiVars, cacheVars, wrapVars>>
\* what GitHubAPI's actions leave alone
nonLs == <<dlVars, rsVars, apiVars, cacheVars, wrapVars>>
\* what get_file_content, the walk and the cache leave alone
nonFc == <<dlVars, rsVars, ls, wk, cacheVars, wrapVars>>
nonWk == <<dlVars, rsVars, ls, fc, cacheVars, wrapVars>>
nonCache == <<dlVars, rsVars, ls, apiVars, wrapVars>>
\* what the decorators' own calls and download_files leave alone
nonWrap == <<dlVars, rsVars, ls, apiVars, cacheVars>>

-----------------------------------------------------------------------------
(***************************************************************************)
(* Bounds of the model.                                                    *)
(***************************************************************************)
MaxTasks   == 3   \* N: tasks a caller enqueues
max_workers == 2  \* K: DownloadService(max_workers = K)
MaxTimeout == 1   \* largest timeout passed to wait_for_downloads
MaxElapsed == 2   \* cap of the waiter's clock
MaxItems   == 3   \* entries of one directory listing
MaxTicks   == 2   \* how far the clock of the cache advances, in ticks
MaxFiles   == 3   \* files in one download_files call
MaxUnits   == 2   \* length of a cached result, in units written
MaxClock   == 2   \* readings of time.time() while tasks are enqueued
MaxSteps   == 3   \* RepositoryService calls in one browsing sequence
MaxListings == 5  \* listings made in one recursive walk before it is cut
MaxProbes  == 3   \* probes of the connection by all threads together

None == "None"

-----------------------------------------------------------------------------
(***************************************************************************)
(* DownloadService                                                         *)
(***************************************************************************)

\* __init__: for i in range(max_workers): one worker thread each
WorkersOffByOne == 0..max_workers
Workers == 1..max_workers

\* DownloadTask.__init__: success = False, error = None; the callback is the
\* caller's: absent (None) or a function, which returns or raises when called.
Callbacks == {None, "callback"}
DownloadTask(cb) == [success |-> FALSE, error |-> None, callback |-> cb]

\* get_download_status: "completed": task.success or task.error is not None;
\* an unknown id reports completed = True.
get_download_status(task_id) ==
    IF task_id \in DOMAIN active_downloads
    THEN LET task == active_downloads[task_id] IN
         [success |-> task.success, error |-> task.error,
          completed |-> (task.success \/ task.error # None)]
    ELSE [success |-> FALSE, error |-> "Task not found", completed |-> TRUE]

\* `if timeout and ...`: None and 0 are both falsy
Truthy(t) == t # <<>> /\ t[1] # 0

\* where a worker continues after the try/except/finally of one task, which
\* failed or not: the exception is handled inside the loop body, so the
\* `while` condition is evaluated next in both cases
AfterTaskDiesOnError(failed) == IF failed THEN "exited" ELSE "check"
AfterTask(failed) == "check"

DlInit ==
    /\ active_downloads = <<>>
    /\ queue = <<>>
    /\ stop_event = FALSE
    /\ wpc = [w \in Workers |-> "check"]
    /\ wtask = [w \in Workers |-> 0]
    /\ c_pc = "enqueue"
    /\ task_ids = <<>>
    /\ listed = <<>>
    /\ timeout = <<>>
    /\ elapsed = 0
    /\ result = FALSE

\* download_file(url, destination, description, callback): register the task
\* under the lock, put it on the queue, return its id.
download_file(cb) ==
    /\ c_pc = "enqueue"
    /\ Len(active_downloads) < MaxTasks
    /\ active_downloads' = Append(active_downloads, DownloadTask(cb))
    /\ queue' = Append(queue, Len(active_downloads) + 1)
    /\ UNCHANGED <<stop_event, wpc, wtask, c_pc, task_ids, listed, timeout,
                   elapsed, result>>
    /\ UNCHANGED nonDl

\* wait_for_downloads(task_ids, timeout): entry, start_time = time.time().
\* The caller passes the ids download_file returned to it.
WaitStart(t) ==
    /\ c_pc = "enqueue"
    /\ c_pc' = "poll"
    /\ task_ids' = [i \in 1..Len(active_downloads) |-> i]
    /\ listed' = task_ids'
    /\ timeout' = t
    /\ elapsed' = 0
    /\ UNCHANGED <<active_downloads, queue, stop_event, wpc, wtask, result>>
    /\ UNCHANGED nonDl

\* one pass of `while task_ids:`: poll every id, keep the incomplete ones,
\* break when none is left, give up when the timeout has elapsed, else sleep.
WaitPoll ==
    /\ c_pc = "poll"
    /\ LET remaining_ids ==
             SelectSeq(task_ids, LAMBDA id : ~get_download_status(id).completed)
       IN /\ task_ids' = remaining_ids
          /\ IF remaining_ids = <<>>
             THEN c_pc' = "final" /\ UNCHANGED result
             ELSE IF Truthy(timeout) /\ elapsed > timeout[1]
             THEN c_pc' = "done" /\ result' = FALSE
             ELSE c_pc' = "sleep" /\ UNCHANGED result
    /\ UNCHANGED <<active_downloads, queue, stop_event, wpc, wtask, listed,
                   timeout, elapsed>>
    /\ UNCHANGED nonDl

\* time.sleep(0.5)
WaitSleep ==
    /\ c_pc = "sleep"
    /\ c_pc' = "poll"
    /\ elapsed' = IF elapsed < MaxElapsed THEN elapsed + 1 ELSE elapsed
    /\ UNCHANGED <<active_downloads, queue, stop_event, wpc, wtask, task_ids,
                   listed, timeout, result>>
    /\ UNCHANGED nonDl

\* after the loop: all(active_downloads.get(id, DownloadTask("", "")).success
\*                     for id in task_ids), task_ids being the local variable
WaitReturn ==
    /\ c_pc = "final"
    /\ c_pc' = "done"
    /\ result' = \A i \in 1..Len(task_ids) :
                    IF task_ids[i] \in DOMAIN active_downloads
                    THEN active_downloads[task_ids[i]].success
                    ELSE DownloadTask(None).success
    /\ UNCHANGED <<active_downloads, queue, stop_event, wpc, wtask, task_ids,
                   listed, timeout, elapsed>>
    /\ UNCHANGED nonDl

\* _download_worker: `while not self._stop_event.is_set()`
WorkerCheck(w) ==
    /\ wpc[w] = "check"
    /\ wpc' = [wpc EXCEPT ![w] = IF stop_event THEN "exited" ELSE "get"]
    /\ UNCHANGED <<active_downloads, queue, stop_event, wtask, c_pc, task_ids,
                   listed, timeout, elapsed, result>>
    /\ UNCHANGED nonDl

\* task_id, task = self.queue.get(timeout=1.0)
WorkerGet(w) ==
    /\ wpc[w] = "get"
    /\ queue # <<>>
    /\ wtask' = [wtask EXCEPT ![w] = Head(queue)]
    /\ queue' = Tail(queue)
    /\ wpc' = [wpc EXCEPT ![w] = "transfer"]
    /\ UNCHANGED <<active_downloads, stop_event, c_pc, task_ids, listed,
                   timeout, elapsed, result>>
    /\ UNCHANGED nonDl

\* queue.get times out on an empty queue (queue.Empty, caught by the outer
\* `except Exception`), and the loop condition is evaluated again
WorkerGetEmpty(w) ==
    /\ wpc[w] = "get"
    /\ queue = <<>>
    /\ wpc' = [wpc EXCEPT ![w] = "check"]
    /\ UNCHANGED <<active_downloads, queue, stop_event, wtask, c_pc, task_ids,
                   listed, timeout, elapsed, result>>
    /\ UNCHANGED nonDl

\* the transfer ends without an exception: with self.lock: task.success = True
TransferOk(w) ==
    /\ wpc[w] = "transfer"
    /\ active_downloads' = [active_downloads EXCEPT ![wtask[w]].success = TRUE]
    /\ IF active_downloads[wtask[w]].callback # None
       THEN wpc' = [wpc EXCEPT ![w] = "callback_ok"] /\ UNCHANGED wtask
       ELSE wpc' = [wpc EXCEPT ![w] = AfterTask(FALSE)]
            /\ wtask' = [wtask EXCEPT ![w] = 0]
    /\ UNCHANGED <<queue, stop_event, c_pc, task_ids, listed, timeout,
                   elapsed, result>>
    /\ UNCHANGED nonDl

\* makedirs, requests.get, raise_for_status or the write raises:
\* except Exception as e: with self.lock: task.error = e
TransferFail(w) ==
    /\ wpc[w] = "transfer"
    /\ active_downloads' =
          [active_downloads EXCEPT ![wtask[w]].error = "transfer_error"]
    /\ IF active_downloads[wtask[w]].callback # None
       THEN wpc' = [wpc EXCEPT ![w] = "callback_err"] /\ UNCHANGED wtask
       ELSE wpc' = [wpc EXCEPT ![w] = AfterTask(TRUE)]
            /\ wtask' = [wtask EXCEPT ![w] = 0]
    /\ UNCHANGED <<queue, stop_event, c_pc, task_ids, listed, timeout,
                   elapsed, result>>
    /\ UNCHANGED nonDl

\* task.callback(task_id, True, None) returns
CallbackOkReturns(w) ==
    /\ wpc[w] = "callback_ok"
    /\ wpc' = [wpc EXCEPT ![w] = AfterTask(FALSE)]
    /\ wtask' = [wtask EXCEPT ![w] = 0]
    /\ UNCHANGED <<active_downloads, queue, stop_event, c_pc, task_ids,
                   listed, timeout, elapsed, result>>
    /\ UNCHANGED nonDl

\* task.callback(task_id, True, None) raises inside the try block: the same
\* `except Exception as e` stores the error; the callback is set, so it is
\* called again with success = False
CallbackOkRaises(w) ==
    /\ wpc[w] = "callback_ok"
    /\ active_downloads' =
          [active_downloads EXCEPT ![wtask[w]].error = "callback_error"]
    /\ wpc' = [wpc EXCEPT ![w] = "callback_err"]
    /\ UNCHANGED <<queue, stop_event, wtask, c_pc, task_ids, listed, timeout,
                   elapsed, result>>
    /\ UNCHANGED nonDl

\* task.callback(task_id, False, str(e)) returns, or raises (finally runs
\* queue.task_done() and the outer `except Exception` logs it)
CallbackErrEnds(w) ==
    /\ wpc[w] = "callback_err"
    /\ wpc' = [wpc EXCEPT ![w] = AfterTask(TRUE)]
    /\ wtask' = [wtask EXCEPT ![w] = 0]
    /\ UNCHANGED <<active_downloads, queue, stop_event, c_pc, task_ids,
                   listed, timeout, elapsed, result>>
    /\ UNCHANGED nonDl

\* stop(): self._stop_event.set()
stop ==
    /\ ~stop_event
    /\ stop_event' = TRUE
    /\ UNCHANGED <<active_downloads, queue, wpc, wtask, c_pc, task_ids,
                   listed, timeout, elapsed, result>>
    /\ UNCHANGED nonDl

WorkerStep(w) ==
    \/ WorkerCheck(w)
    \/ WorkerGet(w)
    \/ WorkerGetEmpty(w)
    \/ TransferOk(w)
    \/ TransferFail(w)
    \/ CallbackOkReturns(w)
    \/ CallbackOkRaises(w)
    \/ CallbackErrEnds(w)

-----------------------------------------------------------------------------
(***************************************************************************)
(* Values, exceptions and HTTP responses                                   *)
(***************************************************************************)
\* a Python call ends by returning a value or by raising an exception
Return(k, v) == [kind |-> k, val |-> v]
Raise(e) == [kind |-> "raise", val |-> e]

\* requests.exceptions: HTTPError, ConnectionError and (from requests 2.27
\* on) JSONDecodeError are RequestExceptions
Exc(type) == [type |-> type, status |-> 0, remaining |-> <<>>, reset_in |-> 0]
\* the HTTPError of raise_for_status(): e.response carries the status, the
\* X-RateLimit-Remaining header (<<>>: absent) and X-RateLimit-Reset, given
\* here as reset_time - time.time()
HTTPError(status, remaining, reset_in) ==
    [type |-> "HTTPError", status |-> status, remaining |-> remaining,
     reset_in |-> reset_in]
IsRequestException(e) ==
    e.type \in {"HTTPError", "ConnectionError", "requests.JSONDecodeError"}

Max(a, b) == IF a >= b THEN a ELSE b

\* handle_rate_limit: retries = 3, `if wait_time < 300`
retries == 3
MaxRateLimitWait == 300

\* handle_rate_limit(func): attempts[i] is what the i-th call of func does.
\* A rate-limited attempt (403, X-RateLimit-Remaining = 0) with a wait below
\* the maximum sleeps and `continue`s; another HTTPError retries while
\* attempt < retries - 1; the `for` loop running out returns None.
RECURSIVE handle_rate_limit_from(_, _)
handle_rate_limit_from(attempts, attempt) ==
    IF attempt >= retries THEN Return("none", None)
    ELSE LET o == attempts[attempt + 1] IN
         IF o.kind # "raise" THEN o
         ELSE IF o.val.type # "HTTPError" THEN o
         ELSE IF /\ o.val.status = 403
                 /\ o.val.remaining # <<>>
                 /\ o.val.remaining[1] = 0
              THEN IF Max(o.val.reset_in, 0) + 1 < MaxRateLimitWait
                   THEN handle_rate_limit_from(attempts, attempt + 1)
                   ELSE o
         ELSE IF attempt < retries - 1
              THEN handle_rate_limit_from(attempts, attempt + 1)
              ELSE o

handle_rate_limit(attempts) == handle_rate_limit_from(attempts, 0)

\* cache_response(func): a valid cache entry (<<v>>) is returned without
\* calling func; otherwise func's outcome is the wrapper's outcome
cache_response(cached, outcome) ==
    IF cached # <<>> THEN Return("list", cached[1]) ELSE outcome

\* _scrape_user_repositories: a 404 is "user not found" and returns [];
\* raise_for_status() is outside any try; the parsed page gives the list
_scrape_user_repositories(resp) ==
    IF resp.kind = "raise" THEN resp
    ELSE IF resp.val.status = 404 THEN Return("list", <<>>)
    ELSE IF resp.val.status >= 400
         THEN Raise(HTTPError(resp.val.status, resp.val.remaining,
                              resp.val.reset_in))
    ELSE Return("list", resp.val.body)

\* GitHubAPI.get_user_repositories, the decorated function's body: the API
\* pages first; `except requests.RequestException` falls back to scraping;
\* any other exception (a repository object lacking a field) propagates
get_user_repositories_body(api, scrape) ==
    IF api.kind # "raise" THEN api
    ELSE IF IsRequestException(api.val) THEN _scrape_user_repositories(scrape)
    ELSE api

\* GitHubAPI.get_user_repositories as callers see it:
\* @handle_rate_limit @cache_response(timeout=3600); net[i] is what the
\* network answers during the i-th attempt
get_user_repositories(cached, net) ==
    handle_rate_limit(
        [i \in 1..retries |->
            cache_response(cached,
                get_user_repositories_body(net[i].api, net[i].scrape))])

-----------------------------------------------------------------------------
(***************************************************************************)
(* Strings as sequences of characters                                      *)
(***************************************************************************)
\* str.startswith
StartsWith(str, prefix) ==
    /\ Len(prefix) <= Len(str)
    /\ SubSeq(str, 1, Len(prefix)) = prefix

\* str.lstrip(ch)
RECURSIVE LStrip(_, _)
LStrip(str, ch) ==
    IF str # <<>> /\ Head(str) = ch THEN LStrip(Tail(str), ch) ELSE str

-----------------------------------------------------------------------------
(***************************************************************************)
(* NetworkService and RepositoryService                                    *)
(***************************************************************************)
\* NetworkService.check_connection: self._connected = connected, under the lock
check_connection(probe) ==
    /\ connected' = probe
    /\ UNCHANGED rs
    /\ UNCHANGED nonRs

\* A call of a collaborator, as recorded in rs.calls
Call(fn, arg) == [fn |-> fn, arg |-> arg]

\* the outcome of one RepositoryService method: what it returned (or that
\* it raised), the collaborator calls it made, and whether an exception
\* reached its outermost handler
Outcome(ret, calls, caught) == [ret |-> ret, calls |-> calls, caught |-> caught]

NoConnectionContent == "Cannot fetch file content: No internet connection"
ErrorContent == "Error retrieving file content: <str(e)>"

\* RepositoryService.get_user_repositories(username)
RS_get_user_repositories(conn, api) ==
    IF ~conn THEN Outcome(Return("list", <<>>), <<>>, FALSE)
    ELSE LET calls == <<Call("github_api.get_user_repositories", "")>> IN
         IF api.kind = "raise"
         THEN Outcome(Return("list", <<>>), calls, TRUE)
         ELSE Outcome(api, calls, FALSE)

\* RepositoryService.get_repository_files(username, repo_name, branch, path):
\* for the root with branch main/master the default branch is asked first; a
\* failure of that is logged only
\* the method without lines 70-77: the supplied branch is listed as it is
RS_get_repository_files_Unverified(conn, branch, path, default, files) ==
    IF ~conn THEN Outcome(Return("list", <<>>), <<>>, FALSE)
    ELSE LET calls == <<Call("github_api.get_repository_files", branch)>>
         IN IF files.kind = "raise"
            THEN Outcome(Return("list", <<>>), calls, TRUE)
            ELSE Outcome(files, calls, FALSE)
RS_get_repository_files(conn, branch, path, default, files) ==
    IF ~conn THEN Outcome(Return("list", <<>>), <<>>, FALSE)
    ELSE LET verify == path = <<>> /\ branch \in {"main", "master"}
             actual == IF verify /\ default.kind # "raise"
                          /\ default.val # None /\ default.val # ""
                          /\ default.val # branch
                       THEN default.val ELSE branch
             calls == (IF verify
                       THEN <<Call("github_api.get_default_branch", "")>>
                       ELSE <<>>)
                      \o <<Call("github_api.get_repository_files", actual)>>
         IN IF files.kind = "raise"
            THEN Outcome(Return("list", <<>>), calls, TRUE)
            ELSE Outcome(files, calls, FALSE)

\* RepositoryService.get_file_content(username, repo_name, path, branch)
RS_get_file_content(conn, branch, content) ==
    IF ~conn THEN Outcome(Return("str", NoConnectionContent), <<>>, FALSE)
    ELSE LET calls == <<Call("github_api.get_file_content", branch)>> IN
         IF content.kind = "raise"
         THEN Outcome(Return("str", ErrorContent), calls, TRUE)
         ELSE Outcome(content, calls, FALSE)

\* RepositoryService.download_file(url, destination): os.makedirs, then
\* downloader.download_file (which calls os.makedirs itself), then
\* wait_for_downloads([task_id])
RS_download_file(conn, makedirs_ok, waited) ==
    IF ~conn THEN Outcome(Return("bool", FALSE), <<>>, FALSE)
    ELSE IF ~makedirs_ok THEN Outcome(Return("bool", FALSE), <<>>, TRUE)
    ELSE LET calls == <<Call("downloader.download_file", "url")>> IN
         IF waited.kind = "raise"
         THEN Outcome(Return("bool", FALSE), calls, TRUE)
         ELSE Outcome(waited, calls, FALSE)

\* RepositoryService.download_directory: the prefix `path` is stripped from
\* each file's path, and download_files skips entries without url or path
RelPath(file_path, path) ==
    IF StartsWith(file_path, path)
    THEN LStrip(SubSeq(file_path, Len(path) + 1, Len(file_path)), "/")
    ELSE file_path

RS_download_directory(conn, path, walked, makedirs_ok, waited) ==
    IF ~conn THEN Outcome(Return("bool", FALSE), <<>>, FALSE)
    ELSE LET walk == <<Call("github_api.get_directory_contents_recursive", "")>>
         IN
         IF walked.kind = "raise"
         THEN Outcome(Return("bool", FALSE), walk, TRUE)
         ELSE LET file_list == SelectSeq(walked.val, LAMBDA f : f.type = "file")
                  download_files ==
                      [i \in 1..Len(file_list) |->
                          [url |-> file_list[i].url,
                           path |-> RelPath(file_list[i].path, path)]]
                  queued == SelectSeq(download_files,
                                      LAMBDA f : f.url # "" /\ f.path # <<>>)
                  \* download_files: os.path.join(base_dir, path)
                  enqueue ==
                      [i \in 1..Len(queued) |->
                          Call("downloader.download_file",
                               [url |-> queued[i].url,
                                destination |-> queued[i].path])]
              IN IF queued # <<>> /\ ~makedirs_ok
                 THEN \* download_file's os.makedirs raises at the first file
                      Outcome(Return("bool", FALSE), walk, TRUE)
                 ELSE IF waited.kind = "raise"
                 THEN Outcome(Return("bool", FALSE), walk \o enqueue, TRUE)
                 ELSE Outcome(waited, walk \o enqueue, FALSE)

\* RepositoryService.clone_repository: `git pull` in an existing directory
\* (only CalledProcessError is handled next to it), else `git clone`; the
\* outer handlers turn every exception into False
RS_clone_repository_Ungated(conn, makedirs_ok, exists, git) ==
    IF ~makedirs_ok THEN Outcome(Return("bool", FALSE), <<>>, TRUE)
    ELSE LET calls == <<Call("subprocess.run",
                             IF exists THEN "git pull" ELSE "git clone")>>
         IN IF git.kind = "raise"
            THEN Outcome(Return("bool", FALSE), calls, TRUE)
            ELSE Outcome(Return("bool", TRUE), calls, FALSE)

\* the method without lines 214-229: git clone also into an existing
\* directory
RS_clone_repository_AlwaysClones(conn, makedirs_ok, exists, git) ==
    IF ~conn THEN Outcome(Return("bool", FALSE), <<>>, FALSE)
    ELSE IF ~makedirs_ok THEN Outcome(Return("bool", FALSE), <<>>, TRUE)
    ELSE LET calls == <<Call("subprocess.run", "git clone")>>
         IN IF git.kind = "raise"
            THEN Outcome(Return("bool", FALSE), calls, TRUE)
            ELSE Outcome(Return("bool", TRUE), calls, FALSE)

RS_clone_repository(conn, makedirs_ok, exists, git) ==
    IF ~conn THEN Outcome(Return("bool", FALSE), <<>>, FALSE)
    ELSE IF ~makedirs_ok THEN Outcome(Return("bool", FALSE), <<>>, TRUE)
    ELSE LET calls == <<Call("subprocess.run",
                             IF exists THEN "git pull" ELSE "git clone")>>
         IN IF git.kind = "raise"
            THEN Outcome(Return("bool", FALSE), calls, TRUE)
            ELSE Outcome(Return("bool", TRUE), calls, FALSE)

\* ---- what the collaborators can answer ----
RepoList == <<"repo">>
Ok(body) == Return("response", [status |-> 200, remaining |-> <<>>,
                                reset_in |-> 0, body |-> body])
Status(status, remaining, reset_in) ==
    Return("response", [status |-> status, remaining |-> remaining,
                        reset_in |-> reset_in, body |-> <<>>])
\* the API: the repositories, a connection error, a rate-limit 403, or an
\* answer lacking a field
ApiAnswers ==
    {Return("list", RepoList), Raise(Exc("ConnectionError")),
     Raise(HTTPError(403, <<0>>, 2)), Raise(Exc("KeyError"))}
\* the repositories page: found, not found, a server error, a 403 carrying
\* rate-limit headers (reset soon, or far away), no connection
PageAnswers ==
    {Ok(RepoList), Status(404, <<>>, 0), Status(500, <<>>, 0),
     Status(403, <<0>>, 2), Status(403, <<0>>, 300),
     Raise(Exc("ConnectionError"))}
Nets == [1..retries -> [api : {Raise(Exc("ConnectionError")),
                               Return("list", RepoList)},
                        scrape : PageAnswers]]
        \cup [1..retries -> [api : ApiAnswers, scrape : {Ok(RepoList)}]]

\* dict.get(key, default)
Get(item, key, default) == IF key \in DOMAIN item THEN item[key] ELSE default

\* GitHubAPI.get_default_branch, the decorated function's body (208-216)
get_default_branch_body(api) ==
    IF api.kind = "raise" THEN Return("str", "main")
    ELSE IF api.val.status >= 400 THEN Return("str", "main")
    ELSE IF ~api.val.body.json_ok THEN Raise(Exc("ValueError"))
    ELSE Return("str", Get(api.val.body, "default_branch", "main"))

\* the API request failed and the body returned its fallback
BranchApiFailed(api) == api.kind = "raise" \/ api.val.status >= 400

\* GitHubAPI.get_default_branch as callers see it, on a cache miss:
\* @handle_rate_limit around the body, the API answering every attempt alike
get_default_branch(api) ==
    handle_rate_limit([i \in 1..retries |-> get_default_branch_body(api)])

\* lines 242-243: branch_text.split(':')[-1].strip(), the text given as its
\* words; what follows the last colon
AfterLastColon(words) ==
    IF words = <<>> \/ words[Len(words)] = ":" THEN "" ELSE words[Len(words)]

\* GitHubAPI._get_default_branch (lines 218-247): get_default_branch, and
\* the repository page only when that call raised; requests are the hosts
\* asked, in order
_get_default_branch(api, page) ==
    LET first == get_default_branch(api) IN
    IF first.kind # "raise" THEN [out |-> first, requests |-> <<"api">>]
    ELSE [out |-> IF page.kind = "raise" THEN Return("str", "main")
                  ELSE IF page.val.status >= 400 THEN Return("str", "main")
                  ELSE IF "button" \notin DOMAIN page.val.body
                       THEN Return("str", "main")
                  ELSE Return("str", AfterLastColon(page.val.body.button)),
          requests |-> <<"api", "page">>]

\* what the API answers for /repos/owner/repo, and the repository page
RepoApiAnswers ==
    {Ok([json_ok |-> TRUE, default_branch |-> d]) :
        d \in {"main", "master", "dev", ""}}
    \cup {Ok([json_ok |-> TRUE]), Ok([json_ok |-> FALSE]),
          Raise(Exc("ConnectionError")), Status(404, <<>>, 0),
          Status(500, <<>>, 0), Status(403, <<0>>, 2)}
BranchPages ==
    {Ok([button |-> w]) :
        w \in {<<"dev">>, <<"Branch", ":", "dev">>, <<":">>, <<>>}}
    \cup {Ok([title |-> "repo"]), Status(404, <<>>, 0),
          Raise(Exc("ConnectionError"))}

Branches == {"main", "master", "dev"}
Paths == {<<>>, <<"s">>, <<"/", "s">>, <<"s", "/">>}
FileRecords ==
    {[type |-> "dir", path |-> <<"s">>, url |-> ""],
     [type |-> "file", path |-> <<"s", "/", "u">>, url |-> "raw/s/u"],
     [type |-> "file", path |-> <<"s">>, url |-> "raw/s"]}
Listings == {<<>>} \cup {<<f>> : f \in FileRecords}
               \cup {<<f, g>> : f, g \in FileRecords}
ListingAnswers ==
    {Return("list", l) : l \in Listings} \cup {Raise(Exc("KeyError"))}
ContentAnswers ==
    {Return("str", "content"), Return("str", ""), Return("str", ErrorContent),
     Raise(Exc("AttributeError"))}
WaitAnswers == {Return("bool", TRUE), Return("bool", FALSE)}
GitAnswers ==
    {Return("ok", 0), Raise(Exc("CalledProcessError")),
     Raise(Exc("FileNotFoundError"))}

RsInit ==
    /\ connected = TRUE
    /\ rs = [method |-> "none", path |-> <<>>, gate |-> TRUE,
             out |-> Outcome(Return("none", None), <<>>, FALSE)]

Returned(method, path, out) ==
    /\ rs' = [method |-> method, path |-> path, gate |-> connected,
              out |-> out]
    /\ UNCHANGED connected
    /\ UNCHANGED nonRs

CallGetUserRepositories ==
    \E cached \in {<<>>, <<RepoList>>}, net \in Nets :
        Returned("get_user_repositories", <<>>,
                 RS_get_user_repositories(connected,
                                          get_user_repositories(cached, net)))

\* supplied is the branch argument, api the answer to the request of
\* get_default_branch (drawn only for the calls that ask for it), resolved
\* what get_default_branch made of it
CallGetRepositoryFiles ==
    \E branch \in Branches, path \in Paths, files \in ListingAnswers :
      \E api \in IF path = <<>> /\ branch \in {"main", "master"}
                 THEN RepoApiAnswers
                 ELSE {Raise(Exc("NotAsked"))} :
        LET default == IF api = Raise(Exc("NotAsked"))
                       THEN Return("none", None)
                       ELSE get_default_branch(api) IN
        /\ rs' = [method |-> "get_repository_files", path |-> path,
                  gate |-> connected, supplied |-> branch,
                  api |-> api, resolved |-> default,
                  out |-> RS_get_repository_files(connected, branch, path,
                                                  default, files)]
        /\ UNCHANGED connected
        /\ UNCHANGED nonRs

CallGetFileContent ==
    \E branch \in Branches, content \in ContentAnswers :
        Returned("get_file_content", <<>>,
                 RS_get_file_content(connected, branch, content))

CallDownloadFile ==
    \E makedirs_ok \in BOOLEAN, waited \in WaitAnswers :
        Returned("download_file", <<>>,
                 RS_download_file(connected, makedirs_ok, waited))

CallDownloadDirectory ==
    \E path \in Paths, walked \in ListingAnswers, makedirs_ok \in BOOLEAN,
       waited \in WaitAnswers :
        Returned("download_directory", path,
                 RS_download_directory(connected, path, walked, makedirs_ok,
                                       waited))

\* exists is os.path.exists(dest_path), git what subprocess.run does
CallCloneRepository ==
    \E makedirs_ok \in BOOLEAN, exists \in BOOLEAN, git \in GitAnswers :
        /\ rs' = [method |-> "clone_repository", path |-> <<>>,
                  gate |-> connected, exists |-> exists, git |-> git,
                  out |-> RS_clone_repository(connected, makedirs_ok, exists,
                                              git)]
        /\ UNCHANGED connected
        /\ UNCHANGED nonRs

-----------------------------------------------------------------------------
(***************************************************************************)
(* GitHubAPI.get_repository_files and _scrape_repository_files             *)
(* Names are sequences of character codes (65 = "A", 97 = "a").            *)
(***************************************************************************)
\* str.lower() on one character, and on a string
LowerChar(c) == IF c >= 65 /\ c <= 90 THEN c + 32 ELSE c
Lower(str) == [i \in 1..Len(str) |-> LowerChar(str[i])]

\* Python's str < str: lexicographic on the character codes
RECURSIVE StrLess(_, _)
StrLess(a, b) ==
    IF b = <<>> THEN FALSE
    ELSE IF a = <<>> THEN TRUE
    ELSE IF a[1] # b[1] THEN a[1] < b[1]
    ELSE StrLess(Tail(a), Tail(b))

\* key=lambda x: (0 if x["type"] == "dir" else 1, x["name"].lower())
SortKeyCaseSensitive(x) == <<IF x.type = "dir" THEN 0 ELSE 1, x.name>>
SortKey(x) == <<IF x.type = "dir" THEN 0 ELSE 1, Lower(x.name)>>

\* tuple comparison of two keys
KeyLess(k, l) == k[1] < l[1] \/ (k[1] = l[1] /\ StrLess(k[2], l[2]))

Front(seq) == SubSeq(seq, 1, Len(seq) - 1)
Last(seq) == seq[Len(seq)]

\* sorted(files, key=...): a stable sort, as an insertion sort
RECURSIVE Insert(_, _)
Insert(seq, x) ==
    IF seq = <<>> THEN <<x>>
    ELSE IF KeyLess(SortKey(x), SortKey(Last(seq)))
    THEN Insert(Front(seq), x) \o <<Last(seq)>>
    ELSE seq \o <<x>>

RECURSIVE sorted(_)
sorted(files) ==
    IF files = <<>> THEN <<>> ELSE Insert(sorted(Front(files)), Last(files))

\* the record built from one item of the API's answer (lines 281-293):
\* the type is copied, the url is the item's download_url for type "file"
ApiRecord(item) ==
    [name |-> item.name,
     path |-> item.path,
     type |-> item.type,
     url  |-> IF item.type = "file" THEN Get(item, "download_url", "") ELSE "",
     size |-> Get(item, "size", 0),
     sha  |-> Get(item, "sha", "")]

\* item["type"], item["name"], item["path"] raise KeyError when absent
HasKeys(item) == {"type", "name", "path"} \subseteq DOMAIN item

\* GitHubAPI.get_repository_files up to its `except`: what the API attempt
\* yields for a response. json_error is what response.json() raises on a
\* malformed body: a RequestException from requests 2.27 on, a plain
\* ValueError before (setup.py asks for requests >= 2.25.0).
ApiAttempt(resp, json_error) ==
    IF resp.kind = "raise" THEN resp
    ELSE IF resp.val.status >= 400
    THEN Raise(HTTPError(resp.val.status, resp.val.remaining,
                         resp.val.reset_in))
    ELSE IF ~resp.val.body.json_ok THEN Raise(Exc(json_error))
    ELSE LET contents == resp.val.body.contents IN
         IF \E i \in 1..Len(contents) : ~HasKeys(contents[i])
         THEN Raise(Exc("KeyError"))
         ELSE Return("list", sorted([i \in 1..Len(contents) |->
                                        ApiRecord(contents[i])]))

\* the record built from one row of the scraped page (lines 331-352); rows
\* without a link are skipped
ScrapeRecord(row) ==
    LET file_type == IF row.icon = "icon-directory" THEN "dir" ELSE "file" IN
    [name |-> row.name,
     path |-> row.name,
     type |-> file_type,
     url  |-> IF file_type = "file" THEN "raw_url/username/repo/branch/.."
              ELSE "",
     size |-> 0,
     sha  |-> ""]

\* _scrape_repository_files: a RequestException gives []; a row without an
\* svg (icon is None) raises AttributeError, a link whose href lacks
\* /username/repo/ raises IndexError, and neither is caught
_scrape_repository_files(resp) ==
    IF resp.kind = "raise" THEN Return("list", <<>>)
    ELSE IF resp.val.status >= 400 THEN Return("list", <<>>)
    ELSE LET rows == resp.val.body.contents IN
         IF \E i \in 1..Len(rows) :
               /\ \A j \in 1..(i - 1) : rows[j].icon # None
                                        /\ (rows[j].link => rows[j].href_ok)
               /\ rows[i].icon = None
         THEN Raise(Exc("AttributeError"))
         ELSE IF \E i \in 1..Len(rows) : rows[i].link /\ ~rows[i].href_ok
         THEN Raise(Exc("IndexError"))
         ELSE Return("list",
                     LET links == SelectSeq(rows, LAMBDA r : r.link)
                     IN sorted([i \in 1..Len(links) |->
                                    ScrapeRecord(links[i])]))

\* GitHubAPI.get_repository_files, the decorated function's body: the API
\* attempt, and the scrape when `except requests.RequestException` catches
get_repository_files_body(api, json_error, scrape) ==
    LET attempt == ApiAttempt(api, json_error) IN
    IF attempt.kind = "raise" /\ IsRequestException(attempt.val)
    THEN _scrape_repository_files(scrape)
    ELSE attempt

\* GitHubAPI.get_repository_files as callers see it, on a cache miss:
\* @handle_rate_limit around the body, the network answering every attempt
\* alike
get_repository_files(api, json_error, scrape) ==
    handle_rate_limit(
        [i \in 1..retries |-> get_repository_files_body(api, json_error, scrape)])

\* ---- what the API and the page can answer ----
\* items of type file and dir, a symlink, a file whose download_url is null,
\* an object that lacks "type" and one that lacks "name"; a single JSON
\* object is handled as the list holding it
Names == {<<65>>, <<97>>, <<98>>, <<66, 97>>}
DownloadUrl == "https://raw.githubusercontent.com/.."
ApiItems ==
    {[type |-> t, name |-> n, path |-> n,
      download_url |-> IF t = "dir" THEN None ELSE DownloadUrl] :
        t \in {"file", "dir"}, n \in Names}
    \cup {[type |-> "symlink", name |-> <<97>>, path |-> <<97>>,
           download_url |-> DownloadUrl],
          [type |-> "file", name |-> <<98>>, path |-> <<98>>,
           download_url |-> None],
          [name |-> <<97>>, path |-> <<97>>, download_url |-> DownloadUrl],
          [type |-> "file", path |-> <<97>>, download_url |-> DownloadUrl]}
PageRows ==
    {[icon |-> c, link |-> TRUE, href_ok |-> TRUE, name |-> n] :
        c \in {"icon-directory", "icon-file"}, n \in Names}
    \cup {[icon |-> None, link |-> TRUE, href_ok |-> TRUE, name |-> <<97>>],
          [icon |-> "icon-file", link |-> FALSE, href_ok |-> TRUE,
           name |-> <<97>>],
          [icon |-> "icon-file", link |-> TRUE, href_ok |-> FALSE,
           name |-> <<97>>]}
SeqsUpTo(S, n) == UNION {[1..k -> S] : k \in 0..n}
Json(contents) == Ok([json_ok |-> TRUE, contents |-> contents])
Malformed == Ok([json_ok |-> FALSE, contents |-> <<>>])
ApiResponses ==
    {Json(c) : c \in SeqsUpTo(ApiItems, MaxItems)}
    \cup {Malformed, Raise(Exc("ConnectionError")), Status(404, <<>>, 0),
          Status(500, <<>>, 0), Status(403, <<0>>, 2)}
ScrapeResponses ==
    {Json(c) : c \in SeqsUpTo(PageRows, MaxItems)}
    \cup {Raise(Exc("ConnectionError")), Status(404, <<>>, 0)}
JsonErrors == {"requests.JSONDecodeError", "ValueError"}

LsInit ==
    ls = [pc |-> "idle", api |-> Malformed, api_exc |-> <<>>, scrape |-> <<>>,
          out |-> Return("none", None)]

\* one call of get_repository_files(username, repo_name, branch, path); the
\* page is requested only when the API attempt falls back
CallListing ==
    /\ ls.pc = "idle"
    /\ \E api \in ApiResponses, json_error \in JsonErrors :
          LET attempt == ApiAttempt(api, json_error)
              api_exc == IF attempt.kind = "raise" THEN <<attempt.val.type>>
                         ELSE <<>>
          IN IF attempt.kind = "raise" /\ IsRequestException(attempt.val)
             THEN \E scrape \in ScrapeResponses :
                     ls' = [pc |-> "done", api |-> api, api_exc |-> api_exc,
                            scrape |-> <<scrape>>,
                            out |-> get_repository_files(api, json_error,
                                                         scrape)]
             ELSE ls' = [pc |-> "done", api |-> api, api_exc |-> api_exc,
                         scrape |-> <<>>,
                         out |-> get_repository_files(api, json_error,
                                                      Malformed)]
    /\ UNCHANGED nonLs

-----------------------------------------------------------------------------
(***************************************************************************)
(* GitHubAPI.get_file_content                                              *)
(* Branch names are sequences of character codes; a text is a record of    *)
(* what it is and the branch it was fetched for.                           *)
(***************************************************************************)
BranchMaster == <<109, 97, 115, 116, 101, 114>>   \* "master"
BranchMain == <<109, 97, 105, 110>>               \* "main"

Text(text, ref) == [text |-> text, ref |-> ref]
\* line 455, and lines 449 / 453
CouldNotRetrieve ==
    Text("Could not retrieve file content. The file may be binary or too large.",
         <<>>)
ErrorRetrieving == Text(ErrorContent, <<>>)

\* one request of the session: the host asked, the branch in the URL, and
\* whether get + raise_for_status succeeded
Request(kind, ref, resp) ==
    [kind |-> kind, ref |-> ref,
     ok |-> (resp.kind = "response" /\ resp.val.status < 400)]

\* what a call did: its outcome, its requests in order, and whether the
\* handler of line 400 was entered
Did(out, requests, fell_back) ==
    [out |-> out, requests |-> requests, fell_back |-> fell_back]

\* lines 406-410: branches_to_try
branches_to_try(branch) ==
    <<branch>>
    \o (IF Lower(branch) # BranchMaster THEN <<BranchMaster>> ELSE <<>>)
    \o (IF Lower(branch) # BranchMain THEN <<BranchMain>> ELSE <<>>)

\* lines 425-445: the file-view page; a table.highlight gives its
\* td.blob-code cells joined by newlines, otherwise last_error is raised
\* and caught at line 447
ScrapeFileView(branch, html) ==
    IF html.kind = "raise" \/ html.val.status >= 400
    THEN Return("str", ErrorRetrieving)
    ELSE IF html.val.body.table
    THEN Return("str", Text(IF html.val.body.cells THEN "page lines" ELSE "",
                            branch))
    ELSE Return("str", ErrorRetrieving)

\* lines 404-449: the raw URL of each branch in turn, the first success
\* returns; then the file-view page
RawFallback(branch, raw, html) ==
    LET tries == branches_to_try(branch)
        good == {i \in 1..Len(tries) :
                    raw[tries[i]].kind = "response"
                    /\ raw[tries[i]].val.status < 400}
        n == IF good = {} THEN Len(tries)
             ELSE CHOOSE i \in good : \A j \in good : i <= j
        sent == [i \in 1..n |-> Request("raw", tries[i], raw[tries[i]])]
    IN IF good # {}
       THEN Did(Return("str", Text("raw text", tries[n])), sent, TRUE)
       ELSE Did(ScrapeFileView(branch, html),
                sent \o <<Request("html", branch, html)>>, TRUE)

\* GitHubAPI.get_file_content, the decorated function's body (lines 375-455)
get_file_content_body(branch, api, download, raw, html) ==
    LET asked == <<Request("api", branch, api)>> IN
    IF api.kind = "raise" \/ api.val.status >= 400
    THEN LET d == RawFallback(branch, raw, html)
         IN Did(d.out, asked \o d.requests, TRUE)
    ELSE LET content_data == api.val.body IN
         IF ~content_data.json_ok
         THEN \* response.json() raises a ValueError
              LET d == RawFallback(branch, raw, html)
              IN Did(d.out, asked \o d.requests, TRUE)
         ELSE IF "content" \in DOMAIN content_data
                 /\ Get(content_data, "encoding", None) = "base64"
         THEN IF content_data.content = None
              THEN \* b64decode(None): TypeError, caught at line 451
                   Did(Return("str", ErrorRetrieving), asked, FALSE)
              ELSE IF content_data.content = "undecodable"
              THEN \* binascii.Error / UnicodeDecodeError are ValueErrors
                   LET d == RawFallback(branch, raw, html)
                   IN Did(d.out, asked \o d.requests, TRUE)
              ELSE Did(Return("str", Text(content_data.content, branch)),
                       asked, FALSE)
         ELSE IF "download_url" \in DOMAIN content_data
                 /\ content_data.download_url \notin {None, ""}
         THEN LET both == asked \o <<Request("download", branch, download)>>
              IN IF download.kind = "raise" \/ download.val.status >= 400
                 THEN LET d == RawFallback(branch, raw, html)
                      IN Did(d.out, both \o d.requests, TRUE)
                 ELSE Did(Return("str", Text("download text", branch)),
                          both, FALSE)
         ELSE \* neither: the try block ends, line 455
              Did(Return("str", CouldNotRetrieve), asked, FALSE)

\* ---- what the hosts can answer ----
FcBranches == {BranchMain, BranchMaster, <<77, 97, 105, 110>>,
               <<100, 101, 118>>}
ContentData ==
    {[json_ok |-> FALSE],
     [json_ok |-> TRUE, content |-> "decoded text", encoding |-> "base64"],
     [json_ok |-> TRUE, content |-> "", encoding |-> "base64"],
     [json_ok |-> TRUE, content |-> "undecodable", encoding |-> "base64"],
     [json_ok |-> TRUE, content |-> None, encoding |-> "base64"],
     [json_ok |-> TRUE, content |-> "", encoding |-> "none",
      download_url |-> DownloadUrl],
     [json_ok |-> TRUE, download_url |-> None],
     [json_ok |-> TRUE]}
Transport == {Raise(Exc("ConnectionError")), Status(404, <<>>, 0)}
FcApiResponses == {Ok(d) : d \in ContentData} \cup Transport
PlainResponses == {Ok(<<>>)} \cup Transport
RawResponses == [FcBranches -> {Ok(<<>>), Status(404, <<>>, 0)}]
HtmlResponses ==
    {Ok([table |-> TRUE, cells |-> TRUE]), Ok([table |-> TRUE, cells |-> FALSE]),
     Ok([table |-> FALSE, cells |-> FALSE])} \cup Transport

\* GitHubAPI.__init__ (lines 27-30): the token and the three hosts
Tokens == {None, "ghp_token"}
base_url == "https://api.github.com"
web_url == "https://github.com"
raw_url == "https://raw.githubusercontent.com"

\* lines 35-44: the default headers of self.session
session_headers(token) ==
    IF token # None
    THEN [Accept |-> "application/vnd.github.v3+json",
          UserAgent |-> "GitBrowse/2.0",
          Authorization |-> <<"token", token>>]
    ELSE [Accept |-> "application/vnd.github.v3+json",
          UserAgent |-> "GitBrowse/2.0"]

\* the host a request of get_file_content is addressed to: the contents
\* API (line 383), the download_url it gave or the raw URL (lines 396, 415),
\* the file-view page (line 425)
HostOf(request) ==
    IF request.kind = "api" THEN base_url
    ELSE IF request.kind = "html" THEN web_url
    ELSE raw_url

\* self.session.get(url) is called without a headers argument everywhere:
\* the request carries the session's default headers, whatever its host
headers_sent(headers, request) == headers

FcInit ==
    fc = [pc |-> "idle", branch |-> <<>>, api |-> Status(404, <<>>, 0),
          headers |-> session_headers(None),
          did |-> Did(Return("none", None), <<>>, FALSE)]

\* one call of get_file_content(username, repo_name, path, branch) of a
\* GitHubAPI constructed with or without a token, on a cache miss; the body raises nothing, so @handle_rate_limit returns what its
\* first attempt returned
CallGetContent ==
    /\ fc.pc = "idle"
    /\ \E branch \in FcBranches, api \in FcApiResponses,
          download \in PlainResponses, raw \in RawResponses,
          html \in HtmlResponses, token \in Tokens :
          LET did == get_file_content_body(branch, api, download, raw, html)
          IN fc' = [pc |-> "done", branch |-> branch, api |-> api,
                    headers |-> session_headers(token),
                    did |-> [did EXCEPT !.out =
                               handle_rate_limit([i \in 1..retries |-> did.out])]]
    /\ UNCHANGED nonFc

-----------------------------------------------------------------------------
(***************************************************************************)
(* GitHubAPI.get_directory_contents_recursive                              *)
(* A repository tree is a listing whose directory entries hold their own   *)
(* listing; a path is the sequence of the names leading to an entry.       *)
(***************************************************************************)
WalkNames == {"a", "b"}
File(n) == [name |-> n, type |-> "file"]
Dir(n, sub) == [name |-> n, type |-> "dir", sub |-> sub]
\* the listings of at most two entries with different names
ListingsOver(E) ==
    {<<>>} \cup {<<e>> : e \in E}
    \cup {p \in {<<e, f>> : e \in E, f \in E} : p[1].name # p[2].name}
Level0 == ListingsOver({File(n) : n \in WalkNames})
Level1 == ListingsOver({File(n) : n \in WalkNames}
                       \cup {Dir(n, sub) : n \in WalkNames, sub \in Level0})
Trees == ListingsOver({File(n) : n \in WalkNames}
                      \cup {Dir(n, sub) : n \in WalkNames, sub \in Level1})

\* the entries of the directory at `path` of the tree, as the repository
\* holds them
RECURSIVE Lookup(_, _)
Lookup(listing, path) ==
    IF path = <<>> THEN Return("list", listing)
    ELSE LET m == {i \in 1..Len(listing) : listing[i].name = Head(path)
                                           /\ listing[i].type = "dir"}
         IN IF m = {} THEN Raise(Exc("KeyError"))
            ELSE Lookup(listing[CHOOSE i \in m : TRUE].sub, Tail(path))

\* what self.get_repository_files(username, repo_name, branch, path) gives
\* the walk (line 490): the records of the directory, each with its path;
\* for the failing path an exception, or the empty list of a failed
\* resolution
ListingOf(tree, fail, path) ==
    IF fail # <<>> /\ fail[1].path = path
    THEN IF fail[1].mode = "raise" THEN Raise(Exc("KeyError"))
         ELSE Return("list", <<>>)
    ELSE LET found == Lookup(tree, path) IN
         IF found.kind = "raise" THEN found
         ELSE Return("list",
                     [i \in 1..Len(found.val) |->
                         [name |-> found.val[i].name,
                          path |-> path \o <<found.val[i].name>>,
                          type |-> found.val[i].type]])

RECURSIVE get_directory_contents_recursive(_, _, _)
RECURSIVE WalkFiles(_, _, _)
RECURSIVE WalkFilesBreadthFirst(_, _, _)
RECURSIVE WalkFilesUnguarded(_, _, _)

\* a plausible slip: the entries of the directory first, the subtrees after
WalkFilesBreadthFirst(tree, fail, files) ==
    IF files = <<>> THEN <<>>
    ELSE LET file_info == Head(files)
             rest == WalkFilesBreadthFirst(tree, fail, Tail(files))
             k == Len(files) - 1
         IN <<file_info>> \o SubSeq(rest, 1, k)
            \o (IF file_info.type = "dir"
                THEN get_directory_contents_recursive(tree, fail,
                                                      file_info.path).val
                ELSE <<>>)
            \o SubSeq(rest, k + 1, Len(rest))

\* a plausible slip: the recursive call's failure is not contained, the
\* whole walk ends with []
WalkFilesUnguarded(tree, fail, files) ==
    IF fail # <<>> /\ fail[1].mode = "raise" THEN <<>>
    ELSE IF files = <<>> THEN <<>>
    ELSE LET file_info == Head(files) IN
         <<file_info>>
         \o (IF file_info.type = "dir"
             THEN get_directory_contents_recursive(tree, fail,
                                                   file_info.path).val
             ELSE <<>>)
         \o WalkFilesUnguarded(tree, fail, Tail(files))

\* lines 492-501: for file_info in files: append it, and extend by the
\* walk of its path when it is a directory
WalkFiles(tree, fail, files) ==
    IF files = <<>> THEN <<>>
    ELSE LET file_info == Head(files) IN
         <<file_info>>
         \o (IF file_info.type = "dir"
             THEN get_directory_contents_recursive(tree, fail,
                                                   file_info.path).val
             ELSE <<>>)
         \o WalkFiles(tree, fail, Tail(files))

\* lines 486-506 under @handle_rate_limit: `except Exception` returns []
get_directory_contents_recursive(tree, fail, path) ==
    LET files == ListingOf(tree, fail, path)
        body == IF files.kind = "raise" THEN Return("list", <<>>)
                ELSE Return("list", WalkFiles(tree, fail, files.val))
    IN handle_rate_limit([i \in 1..retries |-> body])

\* every entry of the tree, with its path
RECURSIVE Entries(_, _)
Entries(listing, path) ==
    UNION {{[name |-> listing[i].name, path |-> path \o <<listing[i].name>>,
             type |-> listing[i].type]}
           \cup (IF listing[i].type = "dir"
                 THEN Entries(listing[i].sub, path \o <<listing[i].name>>)
                 ELSE {}) : i \in 1..Len(listing)}

\* the nested directories of the tree
DirPaths(tree) == {e.path : e \in {d \in Entries(tree, <<>>) : d.type = "dir"}}
Failures(tree) ==
    {<<>>} \cup {<<[path |-> p, mode |-> m]>> :
                    p \in DirPaths(tree), m \in {"raise", "empty"}}

WkInit ==
    wk = [pc |-> "idle", tree |-> <<>>, fail |-> <<>>,
          out |-> Return("none", None)]

\* one call of get_directory_contents_recursive(username, repo_name, '',
\* branch) on a repository tree in which at most one nested listing fails
CallWalk ==
    /\ wk.pc = "idle"
    /\ \E tree \in Trees : \E fail \in Failures(tree) :
          wk' = [pc |-> "done", tree |-> tree, fail |-> fail,
                 out |-> get_directory_contents_recursive(tree, fail, <<>>)]
    /\ UNCHANGED nonWk

-----------------------------------------------------------------------------
(***************************************************************************)
(* cache_response around GitHubAPI.get_default_branch                      *)
(***************************************************************************)
\* @cache_response(timeout=3600)
timeout_s == 3600
\* the clock advances by half the timeout
TickLen == timeout_s \div 2

\* a call of get_default_branch(self, username, repo_name): its positional
\* and its keyword arguments
CallForms ==
    {[args |-> <<"owner", "repo">>, kwargs |-> {}],
     [args |-> <<"owner">>, kwargs |-> {<<"repo_name", "repo">>}]}
\* the values the parameters are bound to
Bindings(call) ==
    [p \in {"username", "repo_name"} |->
        IF p = "username" THEN call.args[1]
        ELSE IF Len(call.args) >= 2 THEN call.args[2]
        ELSE (CHOOSE kv \in call.kwargs : kv[1] = p)[2]]
\* line 81: f"{func.__name__}_{hash(str(args) + str(sorted(kwargs.items())))}"
cache_key(name, call) == <<name, call.args, call.kwargs>>
Keys == {cache_key("get_default_branch", call) : call \in CallForms}

\* a cache file: absent, or holding JSON ("valid"), text that is not JSON
\* ("corrupt"), bytes that do not decode ("undecodable"), or not openable
\* ("unreadable"); mtime is os.path.getmtime
NoFile == [state |-> "absent", val |-> None, mtime |-> 0]
CacheFile(state, val, mtime) == [state |-> state, val |-> val, mtime |-> mtime]

\* lines 90-99: what reading the cache gives
IsFreshInclusive(file_age) == file_age <= timeout_s
IsFresh(file_age) == file_age < timeout_s
CacheRead(file, t) ==
    IF file.state = "absent" THEN "miss"
    ELSE IF ~IsFresh(t - file.mtime) THEN "miss"
    ELSE IF file.state = "valid" THEN "hit"
    ELSE IF file.state \in {"corrupt", "unreadable"}
    THEN "miss"       \* json.JSONDecodeError, OSError: logged
    ELSE "raises"     \* UnicodeDecodeError is neither

\* lines 104-108: what writing the result leaves in the file
CacheWrite(file, value, write, t) ==
    IF write = "ok" THEN CacheFile("valid", value, t)
    ELSE IF write = "dump_fails" THEN CacheFile("corrupt", None, t)
    ELSE file         \* open() raised OSError

BranchApiAnswers ==
    {Ok([json_ok |-> TRUE, default_branch |-> "dev"]), Ok([json_ok |-> FALSE]),
     Raise(Exc("ConnectionError"))}
Writes == {"ok", "open_fails", "dump_fails"}

CacheInit ==
    /\ now = 0
    /\ cache_dir = [k \in Keys |-> NoFile]
    /\ cc = [pc |-> "idle"]

\* cache_response's wrapper (lines 79-110) on the cache file of the call's
\* key at time t: os.makedirs (outside any try), the read, the wrapped
\* function, the write. `live` is what the wrapped function does if called.
CacheWrapper(file, t, dir_ok, live, write) ==
    LET read == CacheRead(file, t) IN
    IF ~dir_ok
    THEN [out |-> Raise(Exc("OSError")), file |-> file, read |-> "none",
          invoked |-> FALSE]
    ELSE IF read = "hit"
    THEN [out |-> Return("str", file.val), file |-> file, read |-> read,
          invoked |-> FALSE]
    ELSE IF read = "raises"
    THEN [out |-> Raise(Exc("UnicodeDecodeError")), file |-> file,
          read |-> read, invoked |-> FALSE]
    ELSE IF live.kind = "raise"
    THEN [out |-> live, file |-> file, read |-> read, invoked |-> TRUE]
    ELSE [out |-> live, file |-> CacheWrite(file, live.val, write, t),
          read |-> read, invoked |-> TRUE]

\* the last call that returned, for the call that follows it
Returned_before ==
    IF cc.pc = "idle" THEN <<>>
    ELSE IF cc.out.kind = "raise" THEN cc.prev
    ELSE <<[t |-> cc.t, val |-> cc.out.val, bound |-> Bindings(cc.call)]>>

\* one call of get_default_branch as callers see it (@handle_rate_limit
\* around @cache_response around the body)
CachedCall ==
    /\ \E call \in CallForms, dir_ok \in BOOLEAN :
          LET key == cache_key("get_default_branch", call)
              file == cache_dir[key]
              \* the call's record: the age of the entry it found (<<>>: no
              \* file), what the read gave, whether the wrapped function
              \* was invoked and ended in its fallback, what the write did
              Ends(w, api, write) ==
                  /\ cache_dir' = [cache_dir EXCEPT ![key] = w.file]
                  /\ cc' = [pc |-> "done", call |-> call, t |-> now,
                            prev |-> Returned_before,
                            age |-> IF file.state = "absent" THEN <<>>
                                    ELSE <<now - file.mtime>>,
                            read |-> w.read,
                            invoked |-> w.invoked,
                            failed |-> (w.invoked /\ BranchApiFailed(api)),
                            write |-> IF w.invoked /\ w.out.kind # "raise"
                                      THEN write ELSE "none",
                            out |-> handle_rate_limit(
                                        [i \in 1..retries |-> w.out])]
              unused == Return("none", None)
          IN IF dir_ok /\ CacheRead(file, now) = "miss"
             THEN \E api \in BranchApiAnswers, write \in Writes :
                     Ends(CacheWrapper(file, now, dir_ok,
                                       get_default_branch_body(api), write),
                          api, write)
             ELSE Ends(CacheWrapper(file, now, dir_ok, unused, "ok"),
                       unused, "none")
    /\ UNCHANGED now
    /\ UNCHANGED nonCache

\* time passes
Tick ==
    /\ now < MaxTicks * TickLen
    /\ now' = now + TickLen
    /\ UNCHANGED <<cache_dir, cc>>
    /\ UNCHANGED nonCache

\* the cache file is damaged from outside the program
Damage(key, how) ==
    /\ cache_dir[key].state = "valid"
    /\ cache_dir' = [cache_dir EXCEPT
                        ![key] = CacheFile(how, None, cache_dir[key].mtime)]
    /\ UNCHANGED <<now, cc>>
    /\ UNCHANGED nonCache

-----------------------------------------------------------------------------
(***************************************************************************)
(* The cache key of a call (utils.py 79-83).  The wrapper receives the    *)
(* arguments as the caller passed them: the positional ones in args, the   *)
(* keyword ones in kwargs, in the order written.                           *)
(***************************************************************************)
\* the cached methods and their parameters after self
CachedMethods == {"get_default_branch", "get_user_repositories"}
Params(method) ==
    IF method = "get_default_branch" THEN <<"username", "repo_name">>
    ELSE <<"username">>

\* every way to pass the values vals to the parameters params: the first n
\* positionally, the others by keyword in either order
Passings(params, vals) ==
    LET kw(i) == <<params[i], vals[i]>>
    IN  {[args |-> vals, kwargs |-> <<>>]}
        \cup (IF Len(params) = 1
               THEN {[args |-> <<>>, kwargs |-> <<kw(1)>>]}
               ELSE {[args |-> <<vals[1]>>, kwargs |-> <<kw(2)>>],
                     [args |-> <<>>, kwargs |-> <<kw(1), kw(2)>>],
                     [args |-> <<>>, kwargs |-> <<kw(2), kw(1)>>]})
ArgValues(method) ==
    IF method = "get_default_branch"
    THEN {<<"owner", "repo">>, <<"owner", "other">>}
    ELSE {<<"owner">>, <<"other">>}
CallsOf(method) ==
    UNION {Passings(Params(method), vals) : vals \in ArgValues(method)}

\* the value each parameter is bound to by the call
BindingsOf(method, call) ==
    LET params == Params(method)
    IN  [p \in {params[i] : i \in 1..Len(params)} |->
            LET i == CHOOSE j \in 1..Len(params) : params[j] = p
            IN  IF i <= Len(call.args) THEN call.args[i]
                ELSE call.kwargs[CHOOSE j \in 1..Len(call.kwargs) :
                                     call.kwargs[j][1] = p][2]]

\* sorted(kwargs.items()): the items in the order of their names, whatever
\* the order they were passed in
sorted_items(kwargs) == {kwargs[i] : i \in 1..Len(kwargs)}
\* line 81 applied to the call as passed
key_of_call(method, call) ==
    cache_key(method, [args |-> call.args,
                       kwargs |-> sorted_items(call.kwargs)])

KeyInit == ck = [pc |-> "idle"]

\* two calls of cached methods, each given its key by line 81
CallTwice ==
    /\ ck.pc = "idle"
    /\ \E m1 \in CachedMethods, m2 \in CachedMethods :
          \E c1 \in CallsOf(m1), c2 \in CallsOf(m2) :
             ck' = [pc |-> "done",
                    first |-> [method |-> m1, call |-> c1],
                    second |-> [method |-> m2, call |-> c2],
                    key1 |-> key_of_call(m1, c1),
                    key2 |-> key_of_call(m2, c2)]
    /\ UNCHANGED nonCk
    /\ UNCHANGED nonWrap

-----------------------------------------------------------------------------
(***************************************************************************)
(* handle_rate_limit step by step (utils.py 29-65): the attempts it makes  *)
(* and the sleeps between them.  Attempts are numbered from 0 as in the    *)
(* `for attempt in range(retries)` loop; attempts[attempt + 1] is what     *)
(* the call of func in that attempt does.                                  *)
(***************************************************************************)
\* line 37 and line 41: a 403 whose X-RateLimit-Remaining header is 0
IsRateLimited(o) ==
    /\ o.kind = "raise"
    /\ o.val.type = "HTTPError"
    /\ o.val.status = 403
    /\ o.val.remaining # <<>>
    /\ o.val.remaining[1] = 0
\* the except clause of line 33 catches it
IsHTTPError(o) == o.kind = "raise" /\ o.val.type = "HTTPError"
\* line 43: max(reset_time - time.time(), 0) + 1
wait_time(e) == Max(e.reset_in, 0) + 1
\* line 59: (2 ** attempt) + 1
sleep_time_linear(attempt) == (2 * attempt) + 1
sleep_time(attempt) == (2 ^ attempt) + 1

Slept(attempt, seconds) == [after |-> attempt, seconds |-> seconds]
Ran(out, calls, sleeps) == [out |-> out, calls |-> calls, sleeps |-> sleeps]

RECURSIVE handle_rate_limit_steps(_, _, _)
handle_rate_limit_steps(attempts, attempt, sleeps) ==
    IF attempt >= retries THEN Ran(Return("none", None), attempt, sleeps)
    ELSE LET o == attempts[attempt + 1]
             again(seconds) ==
                 handle_rate_limit_steps(attempts, attempt + 1,
                     Append(sleeps, Slept(attempt, seconds)))
         IN  IF ~IsHTTPError(o) THEN Ran(o, attempt + 1, sleeps)
             ELSE IF IsRateLimited(o)
                  THEN IF wait_time(o.val) < MaxRateLimitWait
                       THEN again(wait_time(o.val))
                       ELSE Ran(o, attempt + 1, sleeps)
             ELSE IF attempt < retries - 1
                  THEN again(sleep_time(attempt))
                  ELSE Ran(o, attempt + 1, sleeps)

\* what one attempt of the wrapped function can do
RateLimited(reset_in) == Raise(HTTPError(403, <<0>>, reset_in))
AttemptOutcomes ==
    {Return("str", "first"), Return("str", "second"),
     Raise(HTTPError(500, <<>>, 0)), Raise(HTTPError(404, <<>>, 0)),
     Raise(HTTPError(403, <<>>, 0)), Raise(HTTPError(403, <<5>>, 1)),
     RateLimited(1), RateLimited(0 - 5),
     RateLimited(MaxRateLimitWait - 2), RateLimited(MaxRateLimitWait - 1),
     Raise(Exc("ConnectionError"))}

RetryInit == rl = [pc |-> "idle"]

\* one call of a function wrapped by handle_rate_limit
CallWrapped ==
    /\ rl.pc = "idle"
    /\ \E attempts \in [1..retries -> AttemptOutcomes] :
          LET ran == handle_rate_limit_steps(attempts, 0, <<>>)
          IN  rl' = [pc |-> "done", attempts |-> attempts, out |-> ran.out,
                     calls |-> ran.calls, sleeps |-> ran.sleeps]
    /\ UNCHANGED nonRl
    /\ UNCHANGED nonWrap

-----------------------------------------------------------------------------
(***************************************************************************)
(* DownloadService.download_files (downloader.py 77-113) with the file     *)
(* system: for each file, whether the parent directory of its destination  *)
(* can be created and whether the file can be written.                     *)
(***************************************************************************)
\* a file_info of the list, with what the file system does for it
FileInfos ==
    [url : {"", "raw/f"}, path : {"d/f"}, dir_ok : BOOLEAN, write_ok : BOOLEAN]
FileLists == UNION {[1..n -> FileInfos] : n \in 0..MaxFiles}

\* line 108: `if url and path`
Wanted(file_info) == file_info.url # "" /\ file_info.path # ""

\* _download_worker on one dequeued task (lines 184-227): os.makedirs, the
\* transfer and the write inside one try; any exception is stored as the
\* task's error
worker_outcome(file_info) ==
    IF file_info.dir_ok /\ file_info.write_ok THEN "success" ELSE "error"

\* lines 104-113 with download_file (lines 77-89): os.makedirs runs in the
\* caller's thread before the task is created, outside any try, so its
\* OSError ends the loop; `done` is the indices enqueued so far
RECURSIVE download_files_from(_, _, _)
download_files_from(file_list, i, done) ==
    IF i > Len(file_list) THEN [out |-> Return("list", done), enqueued |-> done]
    ELSE IF ~Wanted(file_list[i]) THEN download_files_from(file_list, i + 1, done)
    ELSE IF ~file_list[i].dir_ok
         THEN [out |-> Raise(Exc("OSError")), enqueued |-> done]
    ELSE download_files_from(file_list, i + 1, Append(done, i))

download_files(file_list) == download_files_from(file_list, 1, <<>>)

BulkInit == bk = [pc |-> "idle"]

\* one call of download_files, and every enqueued task processed by a worker
CallDownloadFiles ==
    /\ bk.pc = "idle"
    /\ \E file_list \in FileLists :
          LET did == download_files(file_list)
              ids == {did.enqueued[k] : k \in 1..Len(did.enqueued)}
          IN  bk' = [pc |-> "done", files |-> file_list, out |-> did.out,
                     enqueued |-> did.enqueued,
                     terminal |-> [i \in ids |-> worker_outcome(file_list[i])]]
    /\ UNCHANGED nonBk
    /\ UNCHANGED nonWrap

-----------------------------------------------------------------------------
(***************************************************************************)
(* Resolution of the default branch (github.py 196-247)                    *)
(***************************************************************************)
BranchMethods == {"get_default_branch", "_get_default_branch"}

BranchInit == br = [pc |-> "idle"]

\* one call of get_default_branch or of _get_default_branch while the API
\* and the repository page answer as drawn
CallResolveBranch ==
    /\ br.pc = "idle"
    /\ \E method \in BranchMethods, api \in RepoApiAnswers,
          page \in BranchPages :
          LET did == IF method = "_get_default_branch"
                     THEN _get_default_branch(api, page)
                     ELSE [out |-> get_default_branch(api),
                           requests |-> <<"api">>]
          IN  br' = [pc |-> "done", method |-> method, api |-> api,
                     page |-> page, out |-> did.out,
                     requests |-> did.requests]
    /\ UNCHANGED nonBr
    /\ UNCHANGED nonWrap

-----------------------------------------------------------------------------
(***************************************************************************)
(* One row of the scraped listing page (github.py 334-352).  A string is   *)
(* the sequence of the segments that its slashes separate: the href        *)
(* /owner/repo/blob/main/a/b is <<"owner", "repo", "blob", "main", "a",    *)
(* "b">>.                                                                  *)
(***************************************************************************)
MaxDepth == 3

Drop(seq, n) == SubSeq(seq, n + 1, Len(seq))
IsPrefix(pat, seq) ==
    Len(pat) <= Len(seq) /\ SubSeq(seq, 1, Len(pat)) = pat

\* str.replace(old + "/", ""): every occurrence of the segments old that
\* is followed by a slash is removed, scanning from the left
RECURSIVE Remove(_, _)
Remove(seq, old) ==
    IF seq = <<>> THEN <<>>
    ELSE IF IsPrefix(old, seq) /\ Len(seq) > Len(old)
         THEN Remove(Drop(seq, Len(old)), old)
    ELSE <<Head(seq)>> \o Remove(Tail(seq), old)

\* line 337: link['href'].split(f'/{username}/{repo_name}/')[1]: what
\* stands between the first /owner/repo/ and the next one, if the path
\* holds another
item_path_of(href) ==
    LET rest == Drop(href, 2)
        cuts == {k \in 2..(Len(rest) - 2) :
                    rest[k] = "owner" /\ rest[k + 1] = "repo"}
    IN  IF cuts = {} THEN rest
        ELSE SubSeq(rest, 1, (CHOOSE k \in cuts : \A c \in cuts : k <= c) - 1)
\* line 347: item_path.split('/', 2)[2] if there are more than two parts
scraped_path(item_path) ==
    IF Len(item_path) > 2 THEN Drop(item_path, 2) ELSE <<>>
\* lines 341-343: the raw URL built for a file
scraped_url(branch, item_path) ==
    LET raw_path == Remove(item_path, <<"blob">> \o branch)
    IN  <<raw_url, "owner", "repo">> \o branch
        \o (IF Len(raw_path) > 1 THEN Tail(raw_path) ELSE raw_path)
\* lines 345-352
ScrapedRow(file_type, branch, href) ==
    LET item_path == item_path_of(href) IN
    [name |-> href[Len(href)],
     path |-> scraped_path(item_path),
     type |-> file_type,
     url  |-> IF file_type = "file" THEN scraped_url(branch, item_path)
              ELSE <<>>]

\* lines 457-469: f"{self.raw_url}/{username}/{repo_name}/{branch}/{path}"
get_file_download_url(path, branch) ==
    <<raw_url, "owner", "repo">> \o branch \o path

\* the href GitHub gives the row of the entry at path on branch
HrefOf(file_type, branch, path) ==
    <<"owner", "repo", IF file_type = "dir" THEN "tree" ELSE "blob">>
    \o branch \o path

Segments == {"a", "b", "blob", "main", "owner", "repo"}
EntryPaths == UNION {[1..n -> Segments] : n \in 1..MaxDepth}
RowBranches == {<<"main">>, <<"dev">>}

RowInit == sr = [pc |-> "idle"]

\* the row of one entry of the repository, scraped
ScrapeRow ==
    /\ sr.pc = "idle"
    /\ \E file_type \in {"file", "dir"}, branch \in RowBranches,
          path \in EntryPaths :
          sr' = [pc |-> "done", branch |-> branch, entry |-> path,
                 record |-> ScrapedRow(file_type, branch,
                                       HrefOf(file_type, branch, path))]
    /\ UNCHANGED nonSr
    /\ UNCHANGED nonWrap

-----------------------------------------------------------------------------
(***************************************************************************)
(* get_directory_contents_recursive (github.py 486-506) over the listings  *)
(* the resolver gives for a repository: the entries on the way to one      *)
(* leaf.  The recursion is a stack of frames, each the path listed and the *)
(* rows of its listing not yet visited.                                    *)
(***************************************************************************)
\* the repository whose only leaf is at path
TreeOf(path, leaf_type) ==
    {[path |-> SubSeq(path, 1, n),
      type |-> IF n = Len(path) THEN leaf_type ELSE "dir"] :
        n \in 1..Len(path)}

\* the entries GitHub shows for the directory at path; none for a path
\* that is not a directory of the repository (the request fails with 404
\* and the resolver returns [])
Children(tree, path) ==
    {e \in tree : Len(e.path) = Len(path) + 1 /\ IsPrefix(path, e.path)}

\* get_repository_files as the walk sees it: via the API the records carry
\* the API's path (github.py 281-292), via the page the scraped one
resolver_listing(via, tree, branch, path) ==
    LET rows == Children(tree, path) IN
    IF rows = {} THEN <<>>
    ELSE LET e == CHOOSE r \in rows : TRUE IN
         IF via = "api" THEN <<[path |-> e.path, type |-> e.type]>>
         ELSE LET row == ScrapedRow(e.type, branch,
                                    HrefOf(e.type, branch, e.path))
              IN  <<[path |-> row.path, type |-> row.type]>>

Frame(path, rows) == [path |-> path, rows |-> rows]

TreeWalkInit == wl = [pc |-> "idle"]

\* get_directory_contents_recursive(username, repo_name, path, branch)
TreeWalkStart ==
    /\ wl.pc = "idle"
    /\ \E via \in {"api", "scrape"}, branch \in RowBranches,
          leaf \in EntryPaths, leaf_type \in {"file", "dir"} :
          LET tree == TreeOf(leaf, leaf_type) IN
          \E path \in {<<>>} \cup {e.path : e \in {d \in tree : d.type = "dir"}} :
              wl' = [pc |-> "walking", via |-> via, branch |-> branch,
                     tree |-> tree,
                     stack |-> <<Frame(path, resolver_listing(via, tree,
                                                              branch, path))>>,
                     listed |-> <<path>>, calls |-> <<>>]
    /\ UNCHANGED nonWl
    /\ UNCHANGED nonWrap

\* lines 495-501: the next row is a directory, the walk recurses into it
TreeWalkDescend ==
    /\ wl.pc = "walking"
    /\ wl.stack # <<>>
    /\ LET top == wl.stack[Len(wl.stack)] IN
       /\ top.rows # <<>>
       /\ Head(top.rows).type = "dir"
       /\ LET subdir_path == Head(top.rows).path
              below == SubSeq(wl.stack, 1, Len(wl.stack) - 1)
          IN  IF Len(wl.listed) < MaxListings
              THEN wl' = [wl EXCEPT
                     !.stack = below
                        \o <<Frame(top.path, Tail(top.rows)),
                             Frame(subdir_path,
                                   resolver_listing(wl.via, wl.tree,
                                                    wl.branch, subdir_path))>>,
                     !.listed = Append(@, subdir_path),
                     !.calls = Append(@, [from |-> top.path,
                                          to |-> subdir_path])]
              ELSE wl' = [wl EXCEPT !.pc = "cut"]
    /\ UNCHANGED nonWl
    /\ UNCHANGED nonWrap

\* lines 492-493: the next row is a file
TreeWalkFile ==
    /\ wl.pc = "walking"
    /\ wl.stack # <<>>
    /\ LET top == wl.stack[Len(wl.stack)] IN
       /\ top.rows # <<>>
       /\ Head(top.rows).type # "dir"
       /\ wl' = [wl EXCEPT !.stack[Len(wl.stack)] =
                     Frame(top.path, Tail(top.rows))]
    /\ UNCHANGED nonWl
    /\ UNCHANGED nonWrap

\* line 503: the listing is exhausted, the call returns
TreeWalkReturn ==
    /\ wl.pc = "walking"
    /\ wl.stack # <<>>
    /\ wl.stack[Len(wl.stack)].rows = <<>>
    /\ wl' = [wl EXCEPT !.stack = SubSeq(@, 1, Len(@) - 1),
                        !.pc = IF Len(wl.stack) = 1 THEN "done" ELSE "walking"]
    /\ UNCHANGED nonWl
    /\ UNCHANGED nonWrap

-----------------------------------------------------------------------------
(***************************************************************************)
(* One cache file under concurrent calls (utils.py 88-110): two calls      *)
(* that missed and write their results, one call that reads.  The file is  *)
(* a sequence of units; the result of writer w, serialised, is the units   *)
(* <<w, 1>> .. <<w, len[w]>>.  open(cache_file, 'w') truncates the file;   *)
(* each writer has its own offset; json.dump reaches the file in one or    *)
(* more writes, none of them ordered with another thread's.                *)
(***************************************************************************)
Writers == {"t1", "t2"}
Nul == <<"nul", 0>>

Serialised(w, n) == [i \in 1..n |-> <<w, i>>]

\* write(2) of units at offset pos: the file is extended with zero bytes
\* up to pos if it is shorter, units beyond the written range are kept
WriteAt(file, pos, units) ==
    LET end == pos + Len(units)
        size == Max(Len(file), end)
    IN  [i \in 1..size |->
            IF i > pos /\ i <= end THEN units[i - pos]
            ELSE IF i <= Len(file) THEN file[i]
            ELSE Nul]

\* json.load on what the file holds: the writers whose complete result it
\* is; a cut or spliced list or string is no JSON text (JSONDecodeError)
ParsesAs(content, len) ==
    {w \in Writers : content = Serialised(w, len[w])}

RaceInit ==
    cf = [pc |-> "idle"]

\* the two calls have results of len[w] units to write
RaceStart ==
    /\ cf.pc = "idle"
    /\ \E len \in [Writers -> 1..MaxUnits] :
          cf' = [pc |-> "run", len |-> len, exists |-> FALSE, file |-> <<>>,
                 wpc |-> [w \in Writers |-> "func"],
                 pos |-> [w \in Writers |-> 0],
                 last |-> <<>>,
                 rd |-> [pc |-> "start", hit |-> FALSE, val |-> <<>>]]
    /\ UNCHANGED nonCf
    /\ UNCHANGED nonWrap

\* line 105: with open(cache_file, 'w') as f
WriterOpen(w) ==
    /\ cf.pc = "run"
    /\ cf.wpc[w] = "func"
    /\ cf' = [cf EXCEPT !.wpc[w] = "dump", !.exists = TRUE, !.file = <<>>,
                        !.pos[w] = 0]
    /\ UNCHANGED nonCf
    /\ UNCHANGED nonWrap

\* line 106: json.dump(result, f); the buffer is flushed k units at a time
WriterWrite(w) ==
    /\ cf.pc = "run"
    /\ cf.wpc[w] = "dump"
    /\ \E k \in 1..(cf.len[w] - cf.pos[w]) :
          cf' = [cf EXCEPT
                   !.file = WriteAt(cf.file, cf.pos[w],
                                    SubSeq(Serialised(w, cf.len[w]),
                                           cf.pos[w] + 1, cf.pos[w] + k)),
                   !.pos[w] = cf.pos[w] + k,
                   !.last = <<w>>]
    /\ UNCHANGED nonCf
    /\ UNCHANGED nonWrap

\* the with block ends: the file is closed, the call returns its result
WriterClose(w) ==
    /\ cf.pc = "run"
    /\ cf.wpc[w] = "dump"
    /\ cf.pos[w] = cf.len[w]
    /\ cf' = [cf EXCEPT !.wpc[w] = "returned"]
    /\ UNCHANGED nonCf
    /\ UNCHANGED nonWrap

\* lines 90-99 in the reading call (the file is fresh): json.load returns
\* the value, or raises JSONDecodeError and the call goes on to func
ReaderLoad ==
    /\ cf.pc = "run"
    /\ cf.rd.pc = "start"
    /\ cf' = [cf EXCEPT !.rd =
                 IF cf.exists /\ ParsesAs(cf.file, cf.len) # {}
                 THEN [pc |-> "returned", hit |-> TRUE, val |-> cf.file]
                 ELSE [pc |-> "func", hit |-> FALSE, val |-> <<>>]]
    /\ UNCHANGED nonCf
    /\ UNCHANGED nonWrap

-----------------------------------------------------------------------------
(***************************************************************************)
(* The task ids of download_file (downloader.py 80-88).  The worker pool   *)
(* above names tasks 1, 2, ..; here the id is the string the code builds   *)
(* and active_downloads is the dict keyed by it.  A task object is known   *)
(* by the number of the call that created it.                              *)
(***************************************************************************)
Urls == {"raw/f", "raw/g"}

\* line 81: f"task_{time.time()}_{hash(url)}"
task_id_of(clock, url) == <<"task", clock, url>>

\* dict assignment: d[key] = value
DictSet(d, key, value) ==
    [k \in DOMAIN d \cup {key} |-> IF k = key THEN value ELSE d[k]]

\* lines 115-137 on the dict: the task found under the id
status_of(d, task_id) ==
    IF task_id \in DOMAIN d
    THEN [found |-> TRUE, url |-> d[task_id].url, call |-> d[task_id].call]
    ELSE [found |-> FALSE, url |-> "", call |-> 0]

IdInit ==
    dk = [clock |-> 0, active |-> <<>>, queued |-> <<>>, returned |-> <<>>]

\* download_file(url, destination) at the present clock reading
IdDownload ==
    /\ Len(dk.returned) < MaxTasks
    /\ \E url \in Urls :
          LET task_id == task_id_of(dk.clock, url)
              task == [url |-> url, call |-> Len(dk.returned) + 1]
          IN  dk' = [dk EXCEPT
                       !.active = DictSet(dk.active, task_id, task),
                       !.queued = Append(dk.queued, <<task_id, task>>),
                       !.returned = Append(dk.returned, task_id)]
    /\ UNCHANGED nonDk
    /\ UNCHANGED nonWrap

\* time.time() gives a later reading
IdTick ==
    /\ dk.clock < MaxClock
    /\ dk' = [dk EXCEPT !.clock = dk.clock + 1]
    /\ UNCHANGED nonDk
    /\ UNCHANGED nonWrap

-----------------------------------------------------------------------------
(***************************************************************************)
(* One browsing sequence of main.py: repository_actions lists the root     *)
(* (187-195), then file_actions (271-305) acts on entries of the listing   *)
(* shown.  Each step records the branch argument RepositoryService         *)
(* received and the branch the GitHubAPI call was made for.                *)
(***************************************************************************)
\* a repository record of the API carries default_branch, a scraped one
\* does not
Repositories ==
    {[name |-> "repo"]}
    \cup {[name |-> "repo", default_branch |-> b] : b \in Branches}

Step(op, supplied, path, branch) ==
    [op |-> op, supplied |-> supplied, path |-> path, branch |-> branch]

\* the branch of the last GitHubAPI call an outcome records
BranchAsked(out) == out.calls[Len(out.calls)].arg

\* main.py 260: is_directory
is_directory(file_info) == file_info.type \in {"dir", "directory", "folder"}

BrowseInit == bw = [pc |-> "repository"]

\* repository_actions, action 1 (main.py 187-195)
ViewFiles ==
    /\ bw.pc = "repository"
    /\ \E repository \in Repositories, api \in RepoApiAnswers,
          files \in ListingAnswers :
          LET default_branch == Get(repository, "default_branch", "main")
              out == RS_get_repository_files(TRUE, default_branch, <<>>,
                                             get_default_branch(api), files)
          IN  bw' = [pc |-> "files", default_branch |-> default_branch,
                     files |-> out.ret.val,
                     steps |-> <<Step("get_repository_files", default_branch,
                                      <<>>, BranchAsked(out))>>]
    /\ UNCHANGED nonBw
    /\ UNCHANGED nonWrap

\* file_actions 'v' on a directory (main.py 274-279)
ViewDirectory ==
    /\ bw.pc = "files"
    /\ Len(bw.steps) < MaxSteps
    /\ \E i \in 1..Len(bw.files), sub_files \in ListingAnswers :
          /\ is_directory(bw.files[i])
          /\ LET out == RS_get_repository_files(TRUE, bw.default_branch,
                                                bw.files[i].path,
                                                Return("none", None),
                                                sub_files)
             IN  bw' = [bw EXCEPT !.steps =
                           Append(@, Step("get_repository_files",
                                          bw.default_branch, bw.files[i].path,
                                          BranchAsked(out)))]
    /\ UNCHANGED nonBw
    /\ UNCHANGED nonWrap

\* file_actions 'v' on a file (main.py 286): no branch is passed, so
\* get_file_content takes its parameter default 'main' (repo.py 85)
ViewFile ==
    /\ bw.pc = "files"
    /\ Len(bw.steps) < MaxSteps
    /\ \E i \in 1..Len(bw.files), content \in ContentAnswers :
          /\ ~is_directory(bw.files[i])
          /\ LET out == RS_get_file_content(TRUE, "main", content)
             IN  bw' = [bw EXCEPT !.steps =
                           Append(@, Step("get_file_content", "main",
                                          bw.files[i].path,
                                          BranchAsked(out)))]
    /\ UNCHANGED nonBw
    /\ UNCHANGED nonWrap

\* file_actions 'd' on a directory (main.py 301-303): download_directory
\* hands its branch to get_directory_contents_recursive (repo.py 156-158)
DownloadDirectory ==
    /\ bw.pc = "files"
    /\ Len(bw.steps) < MaxSteps
    /\ \E i \in 1..Len(bw.files) :
          /\ is_directory(bw.files[i])
          /\ bw' = [bw EXCEPT !.steps =
                       Append(@, Step("download_directory", bw.default_branch,
                                      bw.files[i].path, bw.default_branch))]
    /\ UNCHANGED nonBw
    /\ UNCHANGED nonWrap

-----------------------------------------------------------------------------
(***************************************************************************)
(* NetworkService.check_connection called by several threads (network.py   *)
(* 40-58): the monitor thread of _connection_monitor (86-95) and a thread  *)
(* that forces a check.  The probe runs before the lock is taken; the      *)
(* block under the lock is one step.                                       *)
(***************************************************************************)
Checkers == {"monitor", "caller"}

\* __init__ (lines 23-29): connected is assumed, no callback is set
NetInit ==
    nw = [_connected |-> TRUE, _callback |-> FALSE,
          pc |-> [t \in Checkers |-> "idle"],
          connected |-> [t \in Checkers |-> TRUE],
          probes |-> <<>>, notified |-> <<>>, changes |-> <<>>]

\* set_connection_callback(callback), line 66
set_connection_callback ==
    /\ ~nw._callback
    /\ nw' = [nw EXCEPT !._callback = TRUE]
    /\ UNCHANGED nonNw
    /\ UNCHANGED nonWrap

\* line 46: connected = self._check_internet_connection(), lock not held;
\* probes is the order in which the probes finished
CheckProbe(t) ==
    /\ nw.pc[t] = "idle"
    /\ Len(nw.probes) < MaxProbes
    /\ \E up \in BOOLEAN :
          nw' = [nw EXCEPT !.pc[t] = "probed", !.connected[t] = up,
                           !.probes = Append(@, up)]
    /\ UNCHANGED nonNw
    /\ UNCHANGED nonWrap

\* lines 47-58: under the lock the flag is replaced by this thread's probe
\* result and the callback is called if the value changed; changes are the
\* changes of the flag, each with whether a callback was set then
CheckStore(t) ==
    /\ nw.pc[t] = "probed"
    /\ LET old_state == nw._connected
           connected_t == nw.connected[t]
       IN  nw' = [nw EXCEPT
                    !.pc[t] = "idle",
                    !._connected = connected_t,
                    !.changes = IF old_state # connected_t
                                THEN Append(@, [to |-> connected_t,
                                                heard |-> nw._callback])
                                ELSE @,
                    !.notified = IF old_state # connected_t /\ nw._callback
                                 THEN Append(@, connected_t) ELSE @]
    /\ UNCHANGED nonNw
    /\ UNCHANGED nonWrap

\* is_connected(), lines 37-38
is_connected == nw._connected

\* the caller's threads: download_file, then wait_for_downloads on the ids
Enqueue == \E cb \in Callbacks : download_file(cb)

Timeouts == {<<>>} \cup {<<n>> : n \in 0..MaxTimeout}

Wait ==
    \/ \E t \in Timeouts : WaitStart(t)
    \/ WaitPoll
    \/ WaitSleep
    \/ WaitReturn

vars == <<dlVars, rsVars, ls, apiVars, cacheVars, wrapVars>>

Init ==
    /\ DlInit /\ RsInit /\ LsInit /\ FcInit /\ WkInit /\ CacheInit
    /\ KeyInit /\ RetryInit /\ BulkInit /\ BranchInit /\ RowInit
    /\ RaceInit /\ IdInit /\ BrowseInit
    /\ TreeWalkInit /\ NetInit

\* The worker pool: callers enqueue, workers process, stop() may be called.
Next ==
    \/ Enqueue
    \/ \E w \in Workers : WorkerStep(w)
    \/ stop

Spec == Init /\ [][Next]_vars

\* The pool when stop() is never called, every worker thread is scheduled
\* again and again, and every transfer and every callback ends.
LiveNext ==
    \/ Enqueue
    \/ \E w \in Workers : WorkerStep(w)

LiveSpec ==
    Init /\ [][LiveNext]_vars /\ \A w \in Workers : WF_vars(WorkerStep(w))

\* The pool together with a caller that enqueues and then waits
\* (RepositoryService.download_file / download_directory, or a direct user
\* of DownloadService that passes a timeout).
WaitNext ==
    \/ Enqueue
    \/ Wait
    \/ \E w \in Workers : WorkerStep(w)
    \/ stop

WaitSpec == Init /\ [][WaitNext]_vars

\* RepositoryService called by the UI while the connection monitor runs
RepoNext ==
    \/ \E probe \in BOOLEAN : check_connection(probe)
    \/ CallGetUserRepositories
    \/ CallGetRepositoryFiles
    \/ CallGetFileContent
    \/ CallDownloadFile
    \/ CallDownloadDirectory
    \/ CallCloneRepository

RepoSpec == Init /\ [][RepoNext]_vars

\* GitHubAPI.get_repository_files applied to every answer of the API and of
\* the page
ListingNext == CallListing

ListingSpec == Init /\ [][ListingNext]_vars

\* GitHubAPI.get_file_content applied to every answer of the API, of the
\* raw-content host and of the file-view page
ContentNext == CallGetContent

ContentSpec == Init /\ [][ContentNext]_vars

\* get_directory_contents_recursive applied to every repository tree
WalkNext == CallWalk

WalkSpec == Init /\ [][WalkNext]_vars

\* a cached resolver method called again and again while time passes and
\* the cache directory may be damaged
CacheNext ==
    \/ CachedCall
    \/ Tick
    \/ \E key \in Keys, how \in {"undecodable", "unreadable"} :
          Damage(key, how)

CacheSpec == Init /\ [][CacheNext]_vars

\* pairs of calls of the cached methods, in every way of passing arguments
KeyNext == CallTwice

KeySpec == Init /\ [][KeyNext]_vars

\* a wrapped function called under every sequence of attempt outcomes
RetryNext == CallWrapped

RetrySpec == Init /\ [][RetryNext]_vars

\* download_files called with every list of files
BulkNext == CallDownloadFiles

BulkSpec == Init /\ [][BulkNext]_vars

\* the default branch resolved under every answer of the API and the page
BranchNext == CallResolveBranch

BranchSpec == Init /\ [][BranchNext]_vars

\* every entry of a repository up to the depth bound, scraped
RowNext == ScrapeRow

RowSpec == Init /\ [][RowNext]_vars

\* two writing calls and a reading call on one cache file, interleaved
RaceNext ==
    \/ RaceStart
    \/ \E w \in Writers : WriterOpen(w) \/ WriterWrite(w) \/ WriterClose(w)
    \/ ReaderLoad

RaceSpec == Init /\ [][RaceNext]_vars

\* calls of download_file while the clock advances
IdNext == IdDownload \/ IdTick

IdSpec == Init /\ [][IdNext]_vars

\* one browsing sequence
BrowseNext == ViewFiles \/ ViewDirectory \/ ViewFile \/ DownloadDirectory

BrowseSpec == Init /\ [][BrowseNext]_vars

\* one recursive walk
TreeWalkNext ==
    TreeWalkStart \/ TreeWalkDescend \/ TreeWalkFile \/ TreeWalkReturn

TreeWalkSpec == Init /\ [][TreeWalkNext]_vars

\* the monitor and a caller checking the connection
NetNext ==
    \/ set_connection_callback
    \/ \E t \in Checkers : CheckProbe(t)
    \/ \E t \in Checkers : CheckStore(t)

NetSpec == Init /\ [][NetNext]_vars

-----------------------------------------------------------------------------
(***************************************************************************)
(* Claims about DownloadService                                            *)
(***************************************************************************)
Range(seq) == {seq[i] : i \in 1..Len(seq)}

Created == DOMAIN active_downloads
Terminal(t) == active_downloads[t].success \/ active_downloads[t].error # None
InFlight == {t \in Created : t \notin Range(queue) /\ ~Terminal(t)}
Phase(t) ==
    IF t \notin Created THEN "none"
    ELSE IF Terminal(t) THEN "terminal"
    ELSE IF t \in Range(queue) THEN "queued"
    ELSE "in-flight"

\* C1: wait_for_downloads called without a timeout returns True if and only
\* if every listed task ended with success = true (and False if some listed
\* task ended with an error).
C1_WaitResultIsAllSucceeded ==
    (c_pc = "done" /\ timeout = <<>>) =>
        (result <=> \A t \in Range(listed) : active_downloads[t].success)

\* C2: the number of tasks taken from the queue by a worker and not yet
\* terminal never exceeds max_workers.
C2_AtMostKInFlight == Cardinality(InFlight) <= max_workers

C2_Witness == Cardinality(InFlight) = max_workers /\ queue # <<>>

\* C3: a task reaches its terminal outcome exactly once: once success is
\* true or error is set, neither field changes, and success = true never
\* comes with an error, whatever the transfer and the callback do.
C3_TerminalExactlyOnce ==
    [][\A t \in Created :
          /\ Terminal(t) =>
                /\ active_downloads'[t].success = active_downloads[t].success
                /\ active_downloads'[t].error = active_downloads[t].error
          /\ ~(active_downloads'[t].success /\ active_downloads'[t].error # None)
      ]_vars

\* C4: when a timeout was passed and has elapsed at a poll that finds a
\* listed task still not terminal, wait_for_downloads returns False; and no
\* step of wait_for_downloads changes a task or the queue.
C4_TimeoutReturnsFalse ==
    [][/\ (c_pc = "poll" /\ c_pc' = "sleep" /\ timeout # <<>>) =>
              elapsed <= timeout[1]
       /\ (c_pc \in {"poll", "sleep", "final"} /\ c_pc' # c_pc) =>
              UNCHANGED <<active_downloads, queue>>
      ]_vars

\* C5: every enqueued task eventually becomes terminal, and a task's phase
\* only moves none -> queued -> in-flight -> terminal.
C5_EveryTaskTerminates ==
    /\ \A t \in 1..MaxTasks : (Phase(t) = "queued") ~> (Phase(t) = "terminal")
    /\ [][\A t \in 1..MaxTasks :
             Phase(t)' # Phase(t) =>
                <<Phase(t), Phase(t)'>> \in {<<"none", "queued">>,
                                             <<"queued", "in-flight">>,
                                             <<"in-flight", "terminal">>}
         ]_vars

\* all tasks are terminal although at least as many tasks failed as there
\* are workers: a worker took another task after a failure
C5_Witness ==
    /\ Len(active_downloads) = MaxTasks
    /\ \A t \in Created : Terminal(t)
    /\ Cardinality({t \in Created : active_downloads[t].error # None})
          >= max_workers
    /\ active_downloads[MaxTasks].error = None

-----------------------------------------------------------------------------
(***************************************************************************)
(* Claims about RepositoryService                                          *)
(***************************************************************************)
ListMethods == {"get_user_repositories", "get_repository_files"}
BoolMethods == {"download_file", "download_directory", "clone_repository"}

\* the failure value of a method: [] for listings, a non-empty failure
\* string for file content, False for download and clone
IsFailureValue(method, ret) ==
    IF method \in ListMethods THEN ret.kind = "list" /\ ret.val = <<>>
    ELSE IF method = "get_file_content"
    THEN ret.kind = "str" /\ ret.val \in {NoConnectionContent, ErrorContent}
    ELSE ret.kind = "bool" /\ ret.val = FALSE

\* the type a method declares for its return value
ReturnKind(method) ==
    IF method \in ListMethods THEN "list"
    ELSE IF method = "get_file_content" THEN "str"
    ELSE "bool"

\* C6: a RepositoryService call that finds is_connected() = False returns its
\* failure value and calls no GitHubAPI method, enqueues no download and
\* runs no git command.
C6_OfflineCallDoesNoIO ==
    (rs.method # "none" /\ ~rs.gate) =>
        /\ rs.out.calls = <<>>
        /\ IsFailureValue(rs.method, rs.out.ret)

C6_Witness == rs.method = "clone_repository" /\ ~rs.gate

\* C7: no RepositoryService method raises; each returns a value of its type
\* (a list, a string, a boolean), and its failure value whenever a
\* collaborator failed.
C7_TypedOutcomeNeverRaises ==
    rs.method # "none" =>
        /\ rs.out.ret.kind = ReturnKind(rs.method)
        /\ rs.out.caught => IsFailureValue(rs.method, rs.out.ret)

-----------------------------------------------------------------------------
(***************************************************************************)
(* Claims about directory listings                                         *)
(***************************************************************************)
\* C8: a returned listing has every directory before every non-directory,
\* and within each group the names in non-decreasing case-insensitive order.
C8_ListingSorted ==
    (ls.pc = "done" /\ ls.out.kind = "list") =>
        LET l == ls.out.val IN
        \A i, j \in 1..Len(l) :
            i < j =>
                /\ ~(l[i].type # "dir" /\ l[j].type = "dir")
                /\ ((l[i].type = "dir") <=> (l[j].type = "dir")) =>
                       ~StrLess(Lower(l[j].name), Lower(l[i].name))

\* a scraped listing of directories and files that the page delivered in
\* another order
C8_Witness ==
    /\ ls.pc = "done"
    /\ ls.scrape # <<>>
    /\ ls.scrape[1].kind = "response"
    /\ ls.out.kind = "list"
    /\ Len(ls.out.val) = 3
    /\ ls.out.val[1].type = "dir"
    /\ ls.out.val[2].type = "file" /\ ls.out.val[2].name = <<97>>
    /\ ls.out.val[3].type = "file" /\ ls.out.val[3].name = <<66, 97>>
    /\ ls.out.val # [i \in 1..Len(ls.scrape[1].val.body.contents) |->
                         ScrapeRecord(ls.scrape[1].val.body.contents[i])]

\* C9: every returned record has type "file" or "dir", an empty url when it
\* is a directory and a non-empty url when it is a file.
C9_RecordInvariant ==
    (ls.pc = "done" /\ ls.out.kind = "list") =>
        \A i \in 1..Len(ls.out.val) :
            LET f == ls.out.val[i] IN
            /\ f.type \in {"file", "dir"}
            /\ f.type = "dir" => f.url = ""
            /\ f.type = "file" => f.url \notin {"", None}

\* C10: every failure of the API attempt, transport or parse, leads to
\* exactly one scraping attempt, and the call ends as that scrape ends
\* instead of raising the API attempt's error.
C10_ApiFailureFallsBack ==
    (ls.pc = "done" /\ ls.api_exc # <<>>) =>
        /\ Len(ls.scrape) = 1
        /\ ls.out = _scrape_repository_files(ls.scrape[1])

\* C11: whenever the page is scraped, whatever its rows look like (a row
\* without an svg icon, a link whose href lacks /owner/repo/, no rows), the
\* call returns a list and does not raise.
C11_ScrapeDegradesToList ==
    (ls.pc = "done" /\ Len(ls.scrape) = 1) => ls.out.kind = "list"

-----------------------------------------------------------------------------
(***************************************************************************)
(* Claims about get_file_content                                           *)
(***************************************************************************)
\* the fallback requests in the order the documentation gives: the raw URL
\* of the branch, of master and of main unless equal to the branch, then
\* the file-view page
FallbackOrder(branch) ==
    <<[kind |-> "raw", ref |-> branch]>>
    \o (IF branch # BranchMaster
        THEN <<[kind |-> "raw", ref |-> BranchMaster]>> ELSE <<>>)
    \o (IF branch # BranchMain
        THEN <<[kind |-> "raw", ref |-> BranchMain]>> ELSE <<>>)
    \o <<[kind |-> "html", ref |-> branch]>>

FallbackRequests ==
    SelectSeq(fc.did.requests, LAMBDA r : r.kind \in {"raw", "html"})

\* C12: when the API attempt failed, the requests that follow are a prefix
\* of branch, master, main (each once), file-view page: every request but
\* the last one failed, a request that succeeded is the last one and gives
\* the returned content, and nothing is skipped.
C12_FallbackOrder ==
    (fc.pc = "done" /\ fc.did.fell_back) =>
        LET reqs == FallbackRequests
            order == FallbackOrder(fc.branch)
        IN /\ Len(reqs) >= 1 /\ Len(reqs) <= Len(order)
           /\ \A i \in 1..Len(reqs) :
                 /\ i <= Len(order) =>
                       /\ reqs[i].kind = order[i].kind
                       /\ reqs[i].ref = order[i].ref
                 /\ i < Len(reqs) => ~reqs[i].ok
           /\ (Last(reqs).kind = "raw" /\ Last(reqs).ok) =>
                 fc.did.out = Return("str", Text("raw text", Last(reqs).ref))
           /\ ~Last(reqs).ok => Len(reqs) = Len(order)

\* C13: get_file_content never raises; it returns a failure marker only
\* after the API, the raw URL of every branch to try and the file-view page
\* were all requested; and it returns an empty string only for a file
\* whose content is empty.
C13_FailureOnlyAfterAllStrategies ==
    fc.pc = "done" =>
        /\ fc.did.out.kind = "str"
        /\ fc.did.out.val \in {CouldNotRetrieve, ErrorRetrieving} =>
              /\ \E i \in 1..Len(fc.did.requests) :
                    fc.did.requests[i].kind = "html"
              /\ \A b \in Range(branches_to_try(fc.branch)) :
                    \E i \in 1..Len(fc.did.requests) :
                       /\ fc.did.requests[i].kind = "raw"
                       /\ fc.did.requests[i].ref = b
        /\ fc.did.out.val.text = "" =>
              /\ fc.api.kind = "response"
              /\ fc.api.val.status < 400
              /\ Get(fc.api.val.body, "content", None) = ""

-----------------------------------------------------------------------------
(***************************************************************************)
(* Claims about the directory walk                                         *)
(***************************************************************************)
\* p is a proper prefix of q: q lies below the directory p
Below(p, q) == Len(p) < Len(q) /\ SubSeq(q, 1, Len(p)) = p

\* the entries a walk can reach: those not below the failing directory
Reachable ==
    {e \in Entries(wk.tree, <<>>) :
        wk.fail = <<>> \/ ~Below(wk.fail[1].path, e.path)}

\* the position of the entry named by `path` in its directory's listing
PositionInParent(path) ==
    LET siblings == Lookup(wk.tree, Front(path)).val
    IN CHOOSE i \in 1..Len(siblings) : siblings[i].name = Last(path)

C15_FailingSubtreeOnly ==
    (wk.pc = "done" /\ wk.fail # <<>>) =>
        /\ wk.out.kind = "list"
        /\ \E i \in 1..Len(wk.out.val) : wk.out.val[i].path = wk.fail[1].path
        /\ \A e \in Entries(wk.tree, <<>>) :
              (e \in Range(wk.out.val)) <=> ~Below(wk.fail[1].path, e.path)

\* the failing directory is nested, holds entries, and has a sibling and
\* an entry of its parent's level listed after it
C15_Witness ==
    /\ wk.pc = "done" /\ wk.fail # <<>>
    /\ wk.fail[1].mode = "raise"
    /\ Len(wk.fail[1].path) = 2
    /\ \E e \in Entries(wk.tree, <<>>) : Below(wk.fail[1].path, e.path)
    /\ \E i, j, k \in 1..Len(wk.out.val) :
          /\ i < j /\ j < k
          /\ wk.out.val[i].path = wk.fail[1].path
          /\ Len(wk.out.val[j].path) = 2
          /\ Len(wk.out.val[k].path) = 1

-----------------------------------------------------------------------------
(***************************************************************************)
(* Claims about directory download                                         *)
(***************************************************************************)
\* C16: for the requested root "s" in any of its forms ("s", "/s", "s/"),
\* the file s/u of the walked directory is written to destination/u.
C16_DestinationRelativeToRoot ==
    (rs.method = "download_directory"
     /\ rs.path \in {<<"s">>, <<"/", "s">>, <<"s", "/">>}) =>
        \A i \in 1..Len(rs.out.calls) :
            (rs.out.calls[i].fn = "downloader.download_file"
             /\ rs.out.calls[i].arg.url = "raw/s/u") =>
                rs.out.calls[i].arg.destination = <<"u">>

-----------------------------------------------------------------------------
(***************************************************************************)
(* Claims about the response cache                                         *)
(***************************************************************************)
\* the cache file of the call recorded in cc, before the step and after it
KeyOf(call) == cache_key("get_default_branch", call)
Stale(call) == call.age # <<>> /\ call.age[1] >= timeout_s

\* C17: a call made less than the TTL after an earlier call with the same
\* argument values has returned gives the value that call returned, and
\* does not invoke the wrapped function.
C17_RepeatedCallHitsCache ==
    (/\ cc.pc = "done"
     /\ cc.prev # <<>>
     /\ cc.prev[1].bound = Bindings(cc.call)
     /\ cc.t - cc.prev[1].t < timeout_s) =>
        /\ ~cc.invoked
        /\ cc.out = Return("str", cc.prev[1].val)

C19_FailureNotCached ==
    [][(cc' # cc /\ cc'.failed) => cache_dir' = cache_dir]_vars

\* C20: the cache never makes a call fail: a call either returns the
\* cached value or invokes the wrapped function, and a call that raises
\* raises what the wrapped function raised.
C20_CacheNeverFails ==
    cc.pc = "done" =>
        /\ cc.read = "hit" \/ cc.invoked
        /\ cc.out.kind = "raise" => cc.invoked

-----------------------------------------------------------------------------
(***************************************************************************)
(* Claims about the decorators (api/utils.py)                              *)
(***************************************************************************)
SameBindings ==
    /\ ck.first.method = ck.second.method
    /\ BindingsOf(ck.first.method, ck.first.call)
          = BindingsOf(ck.second.method, ck.second.call)

\* C21: the cache key is a function of the wrapped method and of the
\* (parameter, value) bindings only: two calls get the same key exactly
\* when they are calls of the same method with the same value for every
\* parameter, whatever the order of the keyword arguments and whether an
\* argument is passed positionally or by keyword.
C21_KeyIsFunctionOfBindings ==
    ck.pc = "done" => (SameBindings <=> ck.key1 = ck.key2)

\* the attempts made by the call, numbered from 0, and the sleeps after one
AttemptsMade == 0..(rl.calls - 1)
SleepsAfter(a) ==
    {k \in 1..Len(rl.sleeps) : rl.sleeps[k].after = a}
SleptOnce(a, seconds) ==
    /\ Cardinality(SleepsAfter(a)) = 1
    /\ \A k \in SleepsAfter(a) : rl.sleeps[k].seconds = seconds

\* C22: on HTTP errors that are not rate-limit responses the wrapper makes
\* at most 3 attempts, sleeps 2^attempt + 1 seconds after attempt 0 and
\* after attempt 1 and then calls again, returns what the first attempt
\* that returns has returned, and re-raises the error of the third attempt
\* without sleeping.
C22_BackoffOnHttpError ==
    rl.pc = "done" =>
        /\ rl.calls <= 3
        /\ \A a \in AttemptsMade :
              LET o == rl.attempts[a + 1] IN
              /\ (IsHTTPError(o) /\ ~IsRateLimited(o)) =>
                    IF a < 2
                    THEN SleptOnce(a, (2 ^ a) + 1) /\ rl.calls > a + 1
                    ELSE /\ rl.out = o
                         /\ SleepsAfter(a) = {}
              /\ o.kind # "raise" => (rl.out = o /\ rl.calls = a + 1)

\* three attempts answered 500: slept 2 s and 3 s, the third error raised
C22_Witness ==
    /\ rl.pc = "done"
    /\ \A a \in 1..3 : rl.attempts[a] = Raise(HTTPError(500, <<>>, 0))
    /\ rl.calls = 3
    /\ rl.sleeps = <<Slept(0, 2), Slept(1, 3)>>
    /\ rl.out = Raise(HTTPError(500, <<>>, 0))

\* C23: on a 403 with X-RateLimit-Remaining = 0 the wrapper computes
\* wait = max(reset - now, 0) + 1; if wait < 300 it sleeps for wait and
\* calls the function again (and a success of that call is returned); if
\* wait >= 300 it raises the error without sleeping or calling again.
C23_RateLimitWaitsAndRetries ==
    rl.pc = "done" =>
        \A a \in AttemptsMade :
            LET o == rl.attempts[a + 1]
                wait == Max(o.val.reset_in, 0) + 1
            IN  IsRateLimited(o) =>
                    IF wait < 300
                    THEN /\ SleptOnce(a, wait)
                         /\ rl.calls > a + 1
                         /\ rl.attempts[a + 2].kind # "raise"
                               => rl.out = rl.attempts[a + 2]
                    ELSE /\ rl.out = o
                         /\ rl.calls = a + 1
                         /\ SleepsAfter(a) = {}

-----------------------------------------------------------------------------
(***************************************************************************)
(* Claims about errors and credentials of GitHubAPI                        *)
(***************************************************************************)
\* what get_repository_files reports when no request gets through
TransportFailureOutcome ==
    get_repository_files(Raise(Exc("ConnectionError")), "ValueError",
                         Raise(Exc("ConnectionError")))

\* C24: a 404 is terminal: after the API answered 404 no second request
\* is made for the same resource, and what the caller is told differs from
\* what it is told on a transport failure.
C24_NotFoundIsTerminal ==
    (ls.pc = "done" /\ ls.api.kind = "response" /\ ls.api.val.status = 404)
        => /\ ls.scrape = <<>>
           /\ ls.out # TransportFailureOutcome

\* C25: when a token is configured, the Authorization header goes to the
\* API host only: no request addressed to the web host or to the
\* raw-content host carries it.
C25_TokenOnApiHostOnly ==
    fc.pc = "done" =>
        \A i \in 1..Len(fc.did.requests) :
            HostOf(fc.did.requests[i]) # base_url =>
                "Authorization" \notin
                    DOMAIN headers_sent(fc.headers, fc.did.requests[i])

-----------------------------------------------------------------------------
(***************************************************************************)
(* Claims about the branch verification and about cloning                  *)
(***************************************************************************)
RootListingOfGuess ==
    /\ rs.method = "get_repository_files"
    /\ rs.gate
    /\ rs.path = <<>>
    /\ rs.supplied \in {"main", "master"}

\* C26: a listing of the repository root with a provisional branch of main
\* or master first asks for the default branch and then lists; when the
\* default branch obtained is a branch name, the listing request is made
\* for that branch, so never for the supplied guess when the two differ.
C26_RootListingUsesDefaultBranch ==
    RootListingOfGuess =>
        /\ Len(rs.out.calls) = 2
        /\ rs.out.calls[1].fn = "github_api.get_default_branch"
        /\ rs.out.calls[2].fn = "github_api.get_repository_files"
        /\ (rs.resolved.kind = "str" /\ rs.resolved.val # "") =>
              rs.out.calls[2].arg = rs.resolved.val

\* master was supplied, the default branch is dev, dev was listed
C26_Witness ==
    /\ RootListingOfGuess
    /\ rs.supplied = "master"
    /\ rs.resolved = Return("str", "dev")
    /\ rs.out.calls[2] = Call("github_api.get_repository_files", "dev")

\* C27: clone_repository runs git pull and never git clone when the local
\* directory exists, git clone when it does not, runs at most one git
\* command, returns True exactly when that command exited successfully
\* and False otherwise, and never raises.
C27_PullWhenExistsElseClone ==
    rs.method = "clone_repository" =>
        /\ rs.out.ret.kind = "bool"
        /\ Len(rs.out.calls) <= 1
        /\ \A i \in 1..Len(rs.out.calls) :
              rs.out.calls[i] =
                 Call("subprocess.run",
                      IF rs.exists THEN "git pull" ELSE "git clone")
        /\ rs.out.ret.val <=> (Len(rs.out.calls) = 1 /\ rs.git.kind # "raise")

\* the directory existed, git pull ran and failed, False was returned
C27_Witness ==
    /\ rs.method = "clone_repository"
    /\ rs.exists
    /\ rs.out.calls = <<Call("subprocess.run", "git pull")>>
    /\ rs.git = Raise(Exc("CalledProcessError"))
    /\ rs.out.ret = Return("bool", FALSE)

-----------------------------------------------------------------------------
(***************************************************************************)
(* Claims about shutdown and bulk downloads                                *)
(***************************************************************************)
\* C28: once stop() has set the stop signal, no worker takes a task from
\* the queue; a task taken before may finish.
C28_NoDequeueAfterStop ==
    [][stop_event =>
          /\ Len(queue') >= Len(queue)
          /\ \A w \in Workers : wtask'[w] # wtask[w] => wtask'[w] = 0
      ]_vars

\* C29: an I/O error for one file of a bulk download is the failure of that
\* file's task only: every file of the call that has a url and a path is
\* enqueued and reaches its own terminal state, failed exactly when its
\* own directory or write failed.
C29_IoErrorIsPerTask ==
    bk.pc = "done" =>
        \A i \in 1..Len(bk.files) :
            Wanted(bk.files[i]) =>
                /\ i \in DOMAIN bk.terminal
                /\ bk.terminal[i] = "error"
                      <=> ~(bk.files[i].dir_ok /\ bk.files[i].write_ok)

\* the API answered 403 with X-RateLimit-Remaining: 0 and a reset less
\* than 300 s away
RateLimitAnswer(resp) ==
    /\ resp.kind = "response"
    /\ resp.val.status = 403
    /\ resp.val.remaining = <<0>>
    /\ Max(resp.val.reset_in, 0) + 1 < 300

\* C30: a rate-limit 403 answered to the API request of a resolver method
\* is handled by the backoff wrapper: the method does not treat it as an
\* ordinary failure, so no scrape request is made and the scrape result is
\* not what the call returns.
C30_RateLimitReachesWrapper ==
    (ls.pc = "done" /\ RateLimitAnswer(ls.api)) => ls.scrape = <<>>

-----------------------------------------------------------------------------
(***************************************************************************)
(* Claims about what the decorators and the resolver leave implicit        *)
(***************************************************************************)
\* C31: handle_rate_limit is transparent: what a call returns is what one
\* of its attempts returned, what it raises is the error of its last
\* attempt, and it returns no value of its own such as None.
C31_WrapperIsTransparent ==
    rl.pc = "done" =>
        /\ rl.out.kind # "none"
        /\ rl.out.kind # "raise" =>
              \E a \in AttemptsMade : rl.out = rl.attempts[a + 1]
        /\ rl.out.kind = "raise" => rl.out = rl.attempts[rl.calls]

\* the page names a branch
PageNamesBranch(page) ==
    /\ page.kind = "response"
    /\ page.val.status < 400
    /\ "button" \in DOMAIN page.val.body
    /\ AfterLastColon(page.val.body.button) # ""

\* C32: when the API request for the repository fails, the default branch
\* is obtained by scraping the repository page; 'main' is returned as the
\* fallback only when the API and the scrape have both failed; the branch
\* returned is always a non-empty string.
C32_ApiThenScrape ==
    br.pc = "done" =>
        /\ BranchApiFailed(br.api) =>
              /\ br.requests = <<"api", "page">>
              /\ PageNamesBranch(br.page) =>
                    br.out = Return("str",
                                    AfterLastColon(br.page.val.body.button))
        /\ br.out.kind = "str"
        /\ br.out.val # ""

\* C33: the scraped record of a file at path p on branch b has path = p
\* and url = <raw host>/owner/repo/b/p, the url get_file_download_url
\* gives for the record's own path.
C33_ScrapedRecordAddressesItsPath ==
    (sr.pc = "done" /\ sr.record.type = "file") =>
        /\ sr.record.path = sr.entry
        /\ sr.record.url = get_file_download_url(sr.record.path, sr.branch)

\* the same entries delivered in every order
Reorderings(seq) ==
    {[i \in 1..Len(seq) |-> seq[p[i]]] : p \in Permutations(1..Len(seq))}

\* C34: the order of a listing depends only on the set of entries: had
\* the API delivered the same entries in any other order, the call would
\* have returned the same sequence.
C34_OrderIndependentOfDelivery ==
    (ls.pc = "done" /\ ls.scrape = <<>> /\ ls.out.kind = "list") =>
        \A other \in Reorderings(ls.api.val.body.contents) :
            get_repository_files(Json(other), "ValueError", Malformed)
                = ls.out

\* C35: concurrent use of one cache entry is harmless: a reader returns a
\* complete value that some writer wrote or goes on to the live call, and
\* once all writers have finished the entry holds exactly the value of
\* the writer that wrote last.
C35_CacheRaceHarmless ==
    cf.pc = "run" =>
        /\ cf.rd.hit =>
              \E w \in Writers : cf.rd.val = Serialised(w, cf.len[w])
        /\ (\A w \in Writers : cf.wpc[w] = "returned") =>
              cf.file = Serialised(cf.last[1], cf.len[cf.last[1]])

\* C36: every call of download_file returns an id that no earlier call
\* returned, so the status asked for the id of the i-th call is the status
\* of the task the i-th call created.
C36_TaskIdsUnique ==
    \A i \in 1..Len(dk.returned) :
        /\ \A j \in 1..Len(dk.returned) :
              i # j => dk.returned[i] # dk.returned[j]
        /\ status_of(dk.active, dk.returned[i]).call = i

\* C37: when the API request of get_default_branch fails, the root listing
\* is made for the branch the caller supplied: a failed verification does
\* not turn a supplied master into main, nor main into master.
C37_FailedVerificationKeepsBranch ==
    (RootListingOfGuess /\ BranchApiFailed(rs.api)) =>
        rs.out.calls[Len(rs.out.calls)] =
            Call("github_api.get_repository_files", rs.supplied)

\* C38: within one browsing sequence, all RepositoryService calls that were
\* given the same branch are made for the same effective branch: what the
\* root listing corrected the branch to also holds for the subdirectory
\* listings, file reads and directory downloads that follow.
C38_OneEffectiveBranch ==
    bw.pc = "files" =>
        \A i, j \in 1..Len(bw.steps) :
            bw.steps[i].supplied = bw.steps[j].supplied =>
                bw.steps[i].branch = bw.steps[j].branch

\* C39: in a walk of get_directory_contents_recursive every recursive call
\* is made on a path strictly below the path whose listing it comes from,
\* and no path is listed twice; so the walk of a finite tree ends by
\* itself and is never cut short.
C39_WalkDescendsStrictly ==
    wl.pc # "idle" =>
        /\ \A i \in 1..Len(wl.calls) :
              /\ IsPrefix(wl.calls[i].from, wl.calls[i].to)
              /\ Len(wl.calls[i].to) > Len(wl.calls[i].from)
        /\ \A i, j \in 1..Len(wl.listed) :
              i # j => wl.listed[i] # wl.listed[j]
        /\ wl.pc # "cut"

\* C40: once every check_connection call has returned, is_connected()
\* equals the result of the probe that finished last, whatever the
\* interleaving of the monitor's and other threads' calls; and the
\* callback was called once per change of the flag, with the new value.
C40_FlagHoldsLatestProbe ==
    (nw.probes # <<>> /\ \A t \in Checkers : nw.pc[t] = "idle") =>
        /\ is_connected = nw.probes[Len(nw.probes)]
        /\ LET heard == SelectSeq(nw.changes, LAMBDA c : c.heard)
           IN  nw.notified = [i \in 1..Len(heard) |-> heard[i].to]

=============================================================================
